---- MODULE Spec2Model ----
(***************************************************************************)
(* Deadline-compliance rule engine of the Scheduler backend: stage         *)
(* classification (assign_lawsuit_stages / assign_order_stages), the row   *)
(* evaluators, the stage check runners, build_production_table and the     *)
(* task synthesizer (TaskAnalyzer).                                        *)
(*                                                                         *)
(* Dates are day numbers (day 0 is a Monday); an absent value (None, NaN,  *)
(* NaT, a missing column) is NaT for dates and "NaN" for text columns.     *)
(* A Python string is a sequence of atoms: a status word is one atom, the  *)
(* separator ";" is an atom of its own, so that join and split are real    *)
(* operations on the text.                                                 *)
(***************************************************************************)
EXTENDS Integers, Sequences, FiniteSets, TLC

VARIABLES
    production_type,      \* argument of build_production_table
    row,                  \* the case row of the table handed to build_production_table
    clock,                \* the wall clock (the current date)
    documents_processed,  \* data_manager._processed_data["documents_processed"]
    today,                \* today as read by build_production_table and passed to the runners
    wall,                 \* date.today() as read inside evaluate_prev_to_next_hearing_row
    docs_read,            \* the documents_processed table the last build read
    caseStage,            \* staged_df["caseStage"] of the row
    monitoringStatus,     \* staged_df["monitoringStatus"] of the row
    completionStatus,     \* staged_df["completionStatus"] of the row
    evCheck,              \* evaluator applied directly: the check name
    evRow,                \* evaluator applied directly: the row
    evToday,              \* evaluator applied directly: today
    evResult,             \* evaluator applied directly: the (status, is_completed) returned
    task_counter,         \* TaskAnalyzer._task_counter
    staged,               \* data_manager._processed_data["lawsuit_staged"], ["order_staged"]
    task_mappings,        \* TASK_MAPPINGS
    tasks,                \* TaskAnalyzer.tasks: the list the last analyze_all_tasks returned
    runs,                 \* number of analyze_all_tasks calls that returned
    callers,              \* the analyze_all_tasks calls in progress, one per calling thread
    condRow,              \* _check_task_conditions applied directly: the row
    condConfig,           \* _check_task_conditions applied directly: the task_config
    condResult,           \* _check_task_conditions applied directly: the value returned
    response,             \* the "tasks" list of the last calculate_tasks response
    raised,               \* the exception the last build_production_table call raised
    loaded,               \* data_manager.is_loaded("both")
    requests,             \* number of calculate_tasks requests answered with tasks
    cleaned_data,         \* data_manager._cleaned_data
    raw_data,             \* data_manager._raw_data
    colored_data,         \* data_manager._colored_data
    cleanings,            \* per report: clean_* calls that returned since the last clear
    load_result           \* what the last call of a loading method returned or raised

vars == <<production_type, row, clock, documents_processed, today, wall, docs_read,
          caseStage, monitoringStatus, completionStatus,
          evCheck, evRow, evToday, evResult,
          task_counter, staged, task_mappings, tasks, runs, callers,
          condRow, condConfig, condResult,
          response, raised, loaded, requests,
          cleaned_data, raw_data, colored_data, cleanings, load_result>>

buildVars == <<production_type, row, clock, documents_processed, today, wall, docs_read,
               caseStage, monitoringStatus, completionStatus>>
evalVars == <<evCheck, evRow, evToday, evResult>>
taskVars == <<task_counter, staged, task_mappings, tasks, runs, callers>>
condVars == <<condRow, condConfig, condResult>>
routeVars == <<response, raised, loaded, requests>>
loadVars == <<cleaned_data, raw_data, colored_data, cleanings, load_result>>

-----------------------------------------------------------------------------
(* Bounds of the model *)

\* the first wall-clock date of the model
Day0 == 200
\* how many days the wall clock may advance
MaxTick == 1
\* anchor dates of the evaluator inputs range over 0..MaxAnchor
MaxAnchor == 1
MaxRows == 2
MaxRuns == 2
MaxParts == 2
MaxRequests == 2
\* hearing dates and the date of the evaluation range over Day0 - MaxSpan .. Day0 + MaxSpan
MaxSpan == 4
\* a group of document records has at most MaxGroup records
MaxGroup == 3

-----------------------------------------------------------------------------
(* Absent values *)

NaT == -1
NaN == "NaN"

pd_notna(d) == d # NaT

\* a filled cell of a date column that is not a date (free text typed into the
\* sheet): pd.notna is true of it and pd.to_datetime raises on it
Malformed == -2
to_datetime_raises(v) == v = Malformed
text_notna(s) == s # NaN

-----------------------------------------------------------------------------
(* Text: sequences of atoms *)

SEP == ";"

\* a one-word string
Str(w) == <<w>>

\* str.lower() on an atom
LowerAtom(a) ==
    CASE a = "True" -> "true"
      [] a = "False" -> "false"
      [] a = "TRUE" -> "true"
      [] a = "FALSE" -> "false"
      [] a = "Timely" -> "timely"
      [] a = "TIMELY" -> "timely"
      [] a = "Overdue" -> "overdue"
      [] a = "OVERDUE" -> "overdue"
      [] a = "No_Data" -> "no_data"
      [] a = "NO_DATA" -> "no_data"
      [] OTHER -> a

lower(s) == [i \in 1..Len(s) |-> LowerAtom(s[i])]

\* str(bool)
StrBool(b) == IF b THEN Str("True") ELSE Str("False")

\* ";".join(parts)
RECURSIVE join(_)
join(parts) ==
    IF Len(parts) = 0 THEN <<>>
    ELSE IF Len(parts) = 1 THEN parts[1]
    ELSE parts[1] \o <<SEP>> \o join(Tail(parts))

\* s.split(";"): always at least one part; "" splits into [""]
RECURSIVE split(_)
split(s) ==
    IF \A i \in 1..Len(s) : s[i] # SEP THEN <<s>>
    ELSE LET k == CHOOSE i \in 1..Len(s) :
                      s[i] = SEP /\ \A j \in 1..(i-1) : s[j] # SEP
         IN <<SubSeq(s, 1, k-1)>> \o split(SubSeq(s, k+1, Len(s)))

-----------------------------------------------------------------------------
(* Working-day calendar (RussianCalendar over workalendar's Russia) *)

\* public holidays of the calendar fixture (week days that are not worked)
Holidays == {2, 128, Day0 - 2}

is_working_day(d) == (d % 7) \notin {5, 6} /\ d \notin Holidays

RECURSIVE add_working_days(_, _)
add_working_days(start_date, days_to_add) ==
    IF days_to_add <= 0 THEN start_date
    ELSE IF is_working_day(start_date + 1)
         THEN add_working_days(start_date + 1, days_to_add - 1)
         ELSE add_working_days(start_date + 1, days_to_add)

RECURSIVE get_working_days_between(_, _)
get_working_days_between(start_date, end_date) ==
    IF start_date = end_date THEN 0
    ELSE IF start_date > end_date THEN get_working_days_between(end_date, start_date)
    ELSE (IF is_working_day(start_date + 1) THEN 1 ELSE 0)
         + get_working_days_between(start_date + 1, end_date)

-----------------------------------------------------------------------------
(* VALUES of the case status column *)

REOPENED == "REOPENED"
COMPLAINT_FILED == "COMPLAINT_FILED"
ERROR_DUBLICATE == "ERROR_DUBLICATE"
WITHDRAWN_BY_THE_INITIATOR == "WITHDRAWN_BY_THE_INITIATOR"
CONDITIONALLY_CLOSED == "CONDITIONALLY_CLOSED"
CLOSED == "CLOSED"
COURT_ACT_IN_FORCE == "COURT_ACT_IN_FORCE"
DECISION_MADE == "DECISION_MADE"
UNDER_CONSIDERATION == "UNDER_CONSIDERATION"
AWAITING_COURT_RESPONSE == "AWAITING_COURT_RESPONSE"
PREPARATION_OF_DOCUMENTS == "PREPARATION_OF_DOCUMENTS"
COURT_ORDER == "COURT_ORDER"

\* a status no predicate of the classifiers mentions
UNKNOWN_STATUS == "FutureStatus"

CaseStatuses ==
    {REOPENED, COMPLAINT_FILED, ERROR_DUBLICATE, WITHDRAWN_BY_THE_INITIATOR,
     CONDITIONALLY_CLOSED, CLOSED, COURT_ACT_IN_FORCE, DECISION_MADE,
     UNDER_CONSIDERATION, AWAITING_COURT_RESPONSE, PREPARATION_OF_DOCUMENTS,
     UNKNOWN_STATUS, NaN}

-----------------------------------------------------------------------------
(* Stage classification *)

\* assign_lawsuit_stages with the closed assignment not excluding the exceptions
assign_lawsuit_stages_closed_over_exceptions(r) ==
    LET exception_mask == r.CASE_STATUS \in
            {REOPENED, COMPLAINT_FILED, ERROR_DUBLICATE, WITHDRAWN_BY_THE_INITIATOR}
        closed_mask == \/ r.CASE_STATUS \in {CONDITIONALLY_CLOSED, CLOSED}
                       \/ pd_notna(r.CASE_CLOSING_DATE)
        execution_mask == \/ r.CASE_STATUS = COURT_ACT_IN_FORCE
                          \/ pd_notna(r.ACTUAL_TRANSFER_DATE)
                          \/ pd_notna(r.ACTUAL_RECEIPT_DATE)
        decision_mask == \/ r.CASE_STATUS = DECISION_MADE
                         \/ text_notna(r.CHARACTERISTICS_FINAL_COURT_ACT)
    IN IF closed_mask THEN "closed"
       ELSE IF exception_mask THEN "exceptions"
       ELSE IF execution_mask THEN "executionDocumentReceived"
       ELSE IF decision_mask THEN "decisionMade"
       ELSE IF r.CASE_STATUS = UNDER_CONSIDERATION THEN "underConsideration"
       ELSE IF r.CASE_STATUS = AWAITING_COURT_RESPONSE THEN "courtReaction"
       ELSE IF r.CASE_STATUS = PREPARATION_OF_DOCUMENTS THEN "firstStatusChanged"
       ELSE "outside_stage_filters"

\* assign_lawsuit_stages letting a decision win over a received execution document
assign_lawsuit_stages_decision_over_execution(r) ==
    LET exception_mask == r.CASE_STATUS \in
            {REOPENED, COMPLAINT_FILED, ERROR_DUBLICATE, WITHDRAWN_BY_THE_INITIATOR}
        closed_mask == \/ r.CASE_STATUS \in {CONDITIONALLY_CLOSED, CLOSED}
                       \/ pd_notna(r.CASE_CLOSING_DATE)
        execution_mask == \/ r.CASE_STATUS = COURT_ACT_IN_FORCE
                          \/ pd_notna(r.ACTUAL_TRANSFER_DATE)
                          \/ pd_notna(r.ACTUAL_RECEIPT_DATE)
        decision_mask == \/ r.CASE_STATUS = DECISION_MADE
                         \/ text_notna(r.CHARACTERISTICS_FINAL_COURT_ACT)
    IN IF exception_mask THEN "exceptions"
       ELSE IF closed_mask THEN "closed"
       ELSE IF decision_mask THEN "decisionMade"
       ELSE IF execution_mask THEN "executionDocumentReceived"
       ELSE IF r.CASE_STATUS = UNDER_CONSIDERATION THEN "underConsideration"
       ELSE IF r.CASE_STATUS = AWAITING_COURT_RESPONSE THEN "courtReaction"
       ELSE IF r.CASE_STATUS = PREPARATION_OF_DOCUMENTS THEN "firstStatusChanged"
       ELSE "outside_stage_filters"

assign_lawsuit_stages(r) ==
    LET exception_mask == r.CASE_STATUS \in
            {REOPENED, COMPLAINT_FILED, ERROR_DUBLICATE, WITHDRAWN_BY_THE_INITIATOR}
        closed_mask == \/ r.CASE_STATUS \in {CONDITIONALLY_CLOSED, CLOSED}
                       \/ pd_notna(r.CASE_CLOSING_DATE)
        execution_mask == \/ r.CASE_STATUS = COURT_ACT_IN_FORCE
                          \/ pd_notna(r.ACTUAL_TRANSFER_DATE)
                          \/ pd_notna(r.ACTUAL_RECEIPT_DATE)
        decision_mask == \/ r.CASE_STATUS = DECISION_MADE
                         \/ text_notna(r.CHARACTERISTICS_FINAL_COURT_ACT)
        under_consideration_mask == r.CASE_STATUS = UNDER_CONSIDERATION
        court_reaction_mask == r.CASE_STATUS = AWAITING_COURT_RESPONSE
        first_status_mask == r.CASE_STATUS = PREPARATION_OF_DOCUMENTS
        s0 == "outside_stage_filters"
        s1 == IF exception_mask THEN "exceptions" ELSE s0
        s2 == IF closed_mask /\ ~exception_mask THEN "closed" ELSE s1
        s3 == IF execution_mask /\ ~exception_mask /\ ~closed_mask
              THEN "executionDocumentReceived" ELSE s2
        s4 == IF decision_mask /\ ~exception_mask /\ ~closed_mask /\ ~execution_mask
              THEN "decisionMade" ELSE s3
        s5 == IF under_consideration_mask /\ ~exception_mask /\ ~closed_mask
                 /\ ~execution_mask /\ ~decision_mask
              THEN "underConsideration" ELSE s4
        s6 == IF court_reaction_mask /\ ~exception_mask /\ ~closed_mask
                 /\ ~execution_mask /\ ~decision_mask /\ ~under_consideration_mask
              THEN "courtReaction" ELSE s5
        s7 == IF first_status_mask /\ ~exception_mask /\ ~closed_mask
                 /\ ~execution_mask /\ ~decision_mask /\ ~under_consideration_mask
                 /\ ~court_reaction_mask
              THEN "firstStatusChanged" ELSE s6
    IN s7

\* assign_order_stages handing out the lawsuit stages
assign_order_stages_as_lawsuit(r) == assign_lawsuit_stages(r)

\* assign_order_stages letting a received execution document win over closed
assign_order_stages_execution_over_closed(r) ==
    LET exception_mask == r.CASE_STATUS \in
            {REOPENED, COMPLAINT_FILED, ERROR_DUBLICATE, WITHDRAWN_BY_THE_INITIATOR}
        closed_mask == \/ r.CASE_STATUS = CLOSED
                       \/ pd_notna(r.CASE_CLOSING_DATE)
        execution_mask == \/ r.CASE_STATUS = CONDITIONALLY_CLOSED
                          \/ pd_notna(r.ACTUAL_RECEIPT_DATE)
                          \/ pd_notna(r.ACTUAL_TRANSFER_DATE)
        court_reaction_mask == r.CASE_STATUS = AWAITING_COURT_RESPONSE
        first_status_mask == r.CASE_STATUS = PREPARATION_OF_DOCUMENTS
        s0 == "outside_stage_filters"
        s1 == IF exception_mask THEN "exceptions" ELSE s0
        s2 == IF closed_mask /\ ~exception_mask /\ ~execution_mask THEN "closed" ELSE s1
        s3 == IF execution_mask /\ ~exception_mask
              THEN "executionDocumentReceived" ELSE s2
        s4 == IF court_reaction_mask /\ ~exception_mask /\ ~closed_mask /\ ~execution_mask
              THEN "courtReaction" ELSE s3
        s5 == IF first_status_mask /\ ~exception_mask /\ ~closed_mask
                 /\ ~execution_mask /\ ~court_reaction_mask
              THEN "firstStatusChanged" ELSE s4
    IN s5

assign_order_stages(r) ==
    LET exception_mask == r.CASE_STATUS \in
            {REOPENED, COMPLAINT_FILED, ERROR_DUBLICATE, WITHDRAWN_BY_THE_INITIATOR}
        closed_mask == \/ r.CASE_STATUS = CLOSED
                       \/ pd_notna(r.CASE_CLOSING_DATE)
        execution_mask == \/ r.CASE_STATUS = CONDITIONALLY_CLOSED
                          \/ pd_notna(r.ACTUAL_RECEIPT_DATE)
                          \/ pd_notna(r.ACTUAL_TRANSFER_DATE)
        court_reaction_mask == r.CASE_STATUS = AWAITING_COURT_RESPONSE
        first_status_mask == r.CASE_STATUS = PREPARATION_OF_DOCUMENTS
        s0 == "outside_stage_filters"
        s1 == IF exception_mask THEN "exceptions" ELSE s0
        s2 == IF closed_mask /\ ~exception_mask THEN "closed" ELSE s1
        s3 == IF execution_mask /\ ~exception_mask /\ ~closed_mask
              THEN "executionDocumentReceived" ELSE s2
        s4 == IF court_reaction_mask /\ ~exception_mask /\ ~closed_mask /\ ~execution_mask
              THEN "courtReaction" ELSE s3
        s5 == IF first_status_mask /\ ~exception_mask /\ ~closed_mask
                 /\ ~execution_mask /\ ~court_reaction_mask
              THEN "firstStatusChanged" ELSE s4
    IN s5

-----------------------------------------------------------------------------
(* utils.py *)

TIMELY == Str("timely")
OVERDUE == Str("overdue")
NO_DATA == Str("no_data")

Res(s, c) == [status |-> s, is_completed |-> c]

\* safe_get_column on a date column: the default "no_data" when the column is
\* missing or the value is None / NaN / NaT
safe_get_column(r, column_name) ==
    [no_data |-> ~pd_notna(r[column_name]), value |-> r[column_name]]

\* safe_get_column on a text column
safe_get_text(r, column_name) ==
    [no_data |-> ~text_notna(r[column_name]), value |-> r[column_name]]

\* get_filing_date: the first filled date of the three filing columns, else None
\* (NaT); a value that cannot be parsed raises inside the function's own try and
\* gives None, whatever the later columns hold
get_filing_date(r) ==
    LET filled == IF pd_notna(r.FIRST_LAWSUIT_FILING_DATE)
                  THEN r.FIRST_LAWSUIT_FILING_DATE
                  ELSE IF pd_notna(r.LAWSUIT_FILING_DATE) THEN r.LAWSUIT_FILING_DATE
                  ELSE IF pd_notna(r.LAST_REQUEST_DATE_IN_UP)
                       THEN r.LAST_REQUEST_DATE_IN_UP
                  ELSE NaT
    IN IF to_datetime_raises(filled) THEN NaT ELSE filled

\* evaluate_exceptions_row not knowing the withdrawn cases
evaluate_exceptions_row_without_withdrawn(r) ==
    LET current_status == r.CASE_STATUS
    IN IF current_status = REOPENED THEN Str("reopened")
       ELSE IF current_status = COMPLAINT_FILED THEN Str("complaint_filed")
       ELSE IF current_status = ERROR_DUBLICATE THEN Str("error_dublicate")
       ELSE NO_DATA

evaluate_exceptions_row(r) ==
    LET current_status == r.CASE_STATUS
    IN IF current_status = REOPENED THEN Str("reopened")
       ELSE IF current_status = COMPLAINT_FILED THEN Str("complaint_filed")
       ELSE IF current_status = ERROR_DUBLICATE THEN Str("error_dublicate")
       ELSE IF current_status = WITHDRAWN_BY_THE_INITIATOR
            THEN Str("withdraw_by_the_initiator")
       ELSE NO_DATA

-----------------------------------------------------------------------------
(* The processed document table read by the execution-document join *)

PSIP == "PSIP"                             \* department "ПСИП"
EXECUTION_LIST == "ExecutionList"          \* document "Исполнительный лист"
TRANSFER_CONFIRMED == "TransferConfirmed"  \* responseEssence "Передача подтверждена"

\* get_processed_data("documents_processed") before anything was stored
NoTable == [is_none |-> TRUE, rows |-> <<>>]
Table(rows) == [is_none |-> FALSE, rows |-> rows]

\* the mask of the join without the department
IsExecutionList_any_department(d, case_code) ==
    d.caseCode = case_code /\ d.document = EXECUTION_LIST

IsExecutionList(d, case_code) ==
    d.caseCode = case_code /\ d.department = PSIP /\ d.document = EXECUTION_LIST

\* the rows of the table selected by the boolean mask of the join, in table order
matching_docs(current_processed_documents, case_code) ==
    LET rows == current_processed_documents.rows
        F[i \in 0..Len(rows)] ==
            IF i = 0 THEN <<>>
            ELSE IF IsExecutionList(rows[i], case_code)
                 THEN Append(F[i-1], rows[i]) ELSE F[i-1]
    IN F[Len(rows)]

-----------------------------------------------------------------------------
(* lawsuit_row_analyzer_v2.py *)

\* evaluate_closed_row counting the deadline day itself as overdue
evaluate_closed_row_deadline_day_overdue(r, today_) ==
    LET filing_date == get_filing_date(r)
        deadline_date == filing_date + 125
        closing_date_value == safe_get_column(r, "CASE_CLOSING_DATE")
    IN IF filing_date = NaT THEN Res(NO_DATA, FALSE)
       ELSE IF ~closing_date_value.no_data /\ pd_notna(closing_date_value.value)
            THEN IF to_datetime_raises(closing_date_value.value) THEN Res(NO_DATA, FALSE)
                 ELSE IF closing_date_value.value <= deadline_date
                 THEN Res(TIMELY, TRUE) ELSE Res(OVERDUE, TRUE)
            ELSE IF today_ >= deadline_date
                 THEN Res(OVERDUE, FALSE) ELSE Res(TIMELY, FALSE)

evaluate_closed_row(r, today_) ==
    LET filing_date == get_filing_date(r)
        deadline_date == filing_date + 125
        closing_date_value == safe_get_column(r, "CASE_CLOSING_DATE")
    IN IF filing_date = NaT THEN Res(NO_DATA, FALSE)
       ELSE IF ~closing_date_value.no_data /\ pd_notna(closing_date_value.value)
            THEN IF to_datetime_raises(closing_date_value.value) THEN Res(NO_DATA, FALSE)
                 ELSE IF closing_date_value.value <= deadline_date
                 THEN Res(TIMELY, TRUE) ELSE Res(OVERDUE, TRUE)
            ELSE IF today_ > deadline_date
                 THEN Res(OVERDUE, FALSE) ELSE Res(TIMELY, FALSE)

evaluate_execution_document_received_row(r, current_processed_documents) ==
    LET case_code == safe_get_text(r, "CASE_CODE")
        found == matching_docs(current_processed_documents, case_code.value)
    IN IF case_code.no_data THEN Res(NO_DATA, FALSE)
       ELSE IF current_processed_documents.is_none
               \/ Len(current_processed_documents.rows) = 0
            THEN Res(NO_DATA, FALSE)
       ELSE IF Len(found) > 0
            THEN Res(found[1].monitoringStatus,
                     found[1].responseEssence = TRANSFER_CONFIRMED)
       ELSE Res(NO_DATA, FALSE)

evaluate_decision_date_row(r, today_) ==
    LET decision_court_date_value == safe_get_column(r, "DECISION_COURT_DATE")
        deadline_date == decision_court_date_value.value + 45
        court_decision_date_value == safe_get_column(r, "COURT_DECISION_DATE")
    IN IF decision_court_date_value.no_data THEN Res(NO_DATA, FALSE)
       ELSE IF to_datetime_raises(decision_court_date_value.value) THEN Res(NO_DATA, FALSE)
       ELSE IF ~court_decision_date_value.no_data
               /\ pd_notna(court_decision_date_value.value)
            THEN IF to_datetime_raises(court_decision_date_value.value) THEN Res(NO_DATA, FALSE)
                 ELSE IF court_decision_date_value.value <= deadline_date
                 THEN Res(TIMELY, TRUE) ELSE Res(OVERDUE, TRUE)
            ELSE IF today_ > deadline_date
                 THEN Res(OVERDUE, FALSE) ELSE Res(TIMELY, FALSE)

\* evaluate_decision_receipt_row taking a receipt date it cannot parse for an
\* absent one
evaluate_decision_receipt_row_malformed_as_absent(r, today_) ==
    LET court_decision_date_value == safe_get_column(r, "COURT_DECISION_DATE")
        deadline_date == court_decision_date_value.value + 3
        decision_receipt_date_value == safe_get_column(r, "DECISION_RECEIPT_DATE")
    IN IF court_decision_date_value.no_data THEN Res(NO_DATA, FALSE)
       ELSE IF to_datetime_raises(court_decision_date_value.value) THEN Res(NO_DATA, FALSE)
       ELSE IF ~decision_receipt_date_value.no_data
               /\ pd_notna(decision_receipt_date_value.value)
               /\ ~to_datetime_raises(decision_receipt_date_value.value)
            THEN IF decision_receipt_date_value.value <= deadline_date
                 THEN Res(TIMELY, TRUE) ELSE Res(OVERDUE, TRUE)
            ELSE IF today_ > deadline_date
                 THEN Res(OVERDUE, FALSE) ELSE Res(TIMELY, FALSE)

evaluate_decision_receipt_row(r, today_) ==
    LET court_decision_date_value == safe_get_column(r, "COURT_DECISION_DATE")
        deadline_date == court_decision_date_value.value + 3
        decision_receipt_date_value == safe_get_column(r, "DECISION_RECEIPT_DATE")
    IN IF court_decision_date_value.no_data THEN Res(NO_DATA, FALSE)
       ELSE IF to_datetime_raises(court_decision_date_value.value) THEN Res(NO_DATA, FALSE)
       ELSE IF ~decision_receipt_date_value.no_data
               /\ pd_notna(decision_receipt_date_value.value)
            THEN IF to_datetime_raises(decision_receipt_date_value.value) THEN Res(NO_DATA, FALSE)
                 ELSE IF decision_receipt_date_value.value <= deadline_date
                 THEN Res(TIMELY, TRUE) ELSE Res(OVERDUE, TRUE)
            ELSE IF today_ > deadline_date
                 THEN Res(OVERDUE, FALSE) ELSE Res(TIMELY, FALSE)

evaluate_decision_transfer_row(r, today_) ==
    LET court_decision_date_value == safe_get_column(r, "COURT_DECISION_DATE")
        deadline_date == court_decision_date_value.value + 1
        actual_transfer_date_value == safe_get_column(r, "ACTUAL_TRANSFER_DATE")
    IN IF court_decision_date_value.no_data THEN Res(NO_DATA, FALSE)
       ELSE IF to_datetime_raises(court_decision_date_value.value) THEN Res(NO_DATA, FALSE)
       ELSE IF ~actual_transfer_date_value.no_data
               /\ pd_notna(actual_transfer_date_value.value)
            THEN IF to_datetime_raises(actual_transfer_date_value.value) THEN Res(NO_DATA, FALSE)
                 ELSE IF actual_transfer_date_value.value <= deadline_date
                 THEN Res(TIMELY, TRUE) ELSE Res(OVERDUE, TRUE)
            ELSE IF today_ > deadline_date
                 THEN Res(OVERDUE, FALSE) ELSE Res(TIMELY, FALSE)

evaluate_next_hearing_present_row(r, today_) ==
    LET determination_date_value == safe_get_column(r, "DETERMINATION_DATE")
        deadline_date == add_working_days(determination_date_value.value, 3)
        next_hearing_date_value == safe_get_column(r, "NEXT_HEARING_DATE")
    IN IF determination_date_value.no_data THEN Res(NO_DATA, FALSE)
       ELSE IF to_datetime_raises(determination_date_value.value) THEN Res(NO_DATA, FALSE)
       ELSE IF ~next_hearing_date_value.no_data
               /\ pd_notna(next_hearing_date_value.value)
            THEN IF to_datetime_raises(next_hearing_date_value.value) THEN Res(NO_DATA, FALSE)
                 ELSE IF next_hearing_date_value.value <= deadline_date
                 THEN Res(TIMELY, TRUE) ELSE Res(OVERDUE, TRUE)
            ELSE IF today_ > deadline_date
                 THEN Res(OVERDUE, FALSE) ELSE Res(TIMELY, FALSE)

\* evaluate_prev_to_next_hearing_row allowing fewer than two working days only
evaluate_prev_to_next_hearing_row_strict(r, date_today) ==
    LET prev_hearing_value == safe_get_column(r, "PREVIOUS_HEARING_DATE")
        next_hearing_value == safe_get_column(r, "NEXT_HEARING_DATE")
        is_completed == ~prev_hearing_value.no_data /\ ~next_hearing_value.no_data
        prev_hearing_date == prev_hearing_value.value
        next_hearing_date == next_hearing_value.value
    IN IF prev_hearing_value.no_data /\ next_hearing_value.no_data
       THEN Res(OVERDUE, is_completed)
       ELSE IF prev_hearing_value.no_data /\ ~next_hearing_value.no_data
       THEN IF date_today > add_working_days(next_hearing_date, 2)
            THEN Res(OVERDUE, is_completed) ELSE Res(TIMELY, is_completed)
       ELSE IF next_hearing_value.no_data
       THEN IF date_today > add_working_days(prev_hearing_date, 2)
            THEN Res(OVERDUE, is_completed) ELSE Res(TIMELY, is_completed)
       ELSE IF next_hearing_date < prev_hearing_date
       THEN IF date_today > add_working_days(prev_hearing_date, 2)
            THEN Res(OVERDUE, is_completed) ELSE Res(TIMELY, is_completed)
       ELSE IF get_working_days_between(prev_hearing_date, next_hearing_date) < 2
       THEN Res(TIMELY, is_completed)
       ELSE Res(OVERDUE, is_completed)

\* evaluate_prev_to_next_hearing_row taking the next hearing as the anchor of
\* out-of-order dates
evaluate_prev_to_next_hearing_row_next_anchor(r, date_today) ==
    LET prev_hearing_value == safe_get_column(r, "PREVIOUS_HEARING_DATE")
        next_hearing_value == safe_get_column(r, "NEXT_HEARING_DATE")
        is_completed == ~prev_hearing_value.no_data /\ ~next_hearing_value.no_data
        prev_hearing_date == prev_hearing_value.value
        next_hearing_date == next_hearing_value.value
    IN IF prev_hearing_value.no_data /\ next_hearing_value.no_data
       THEN Res(OVERDUE, is_completed)
       ELSE IF prev_hearing_value.no_data /\ ~next_hearing_value.no_data
       THEN IF date_today > add_working_days(next_hearing_date, 2)
            THEN Res(OVERDUE, is_completed) ELSE Res(TIMELY, is_completed)
       ELSE IF next_hearing_value.no_data
       THEN IF date_today > add_working_days(prev_hearing_date, 2)
            THEN Res(OVERDUE, is_completed) ELSE Res(TIMELY, is_completed)
       ELSE IF next_hearing_date < prev_hearing_date
       THEN IF date_today > add_working_days(next_hearing_date, 2)
            THEN Res(OVERDUE, is_completed) ELSE Res(TIMELY, is_completed)
       ELSE IF get_working_days_between(prev_hearing_date, next_hearing_date) <= 2
       THEN Res(TIMELY, is_completed)
       ELSE Res(OVERDUE, is_completed)

\* The function takes no today argument: date_today is what date.today() returns
\* when the evaluator runs.
\* evaluate_prev_to_next_hearing_row taking the previous hearing alone for completion
evaluate_prev_to_next_hearing_row_completed_by_previous(r, date_today) ==
    LET prev_hearing_value == safe_get_column(r, "PREVIOUS_HEARING_DATE")
        next_hearing_value == safe_get_column(r, "NEXT_HEARING_DATE")
        is_completed == ~prev_hearing_value.no_data
        prev_hearing_date == prev_hearing_value.value
        next_hearing_date == next_hearing_value.value
    IN IF prev_hearing_value.no_data /\ next_hearing_value.no_data
       THEN Res(OVERDUE, is_completed)
       ELSE IF prev_hearing_value.no_data /\ ~next_hearing_value.no_data
       THEN IF to_datetime_raises(next_hearing_date) THEN Res(NO_DATA, FALSE)
            ELSE IF date_today > add_working_days(next_hearing_date, 2)
            THEN Res(OVERDUE, is_completed) ELSE Res(TIMELY, is_completed)
       ELSE IF to_datetime_raises(prev_hearing_date) THEN Res(NO_DATA, FALSE)
       ELSE IF next_hearing_value.no_data
       THEN IF date_today > add_working_days(prev_hearing_date, 2)
            THEN Res(OVERDUE, is_completed) ELSE Res(TIMELY, is_completed)
       ELSE IF to_datetime_raises(next_hearing_date) THEN Res(NO_DATA, FALSE)
       ELSE IF next_hearing_date < prev_hearing_date
       THEN IF date_today > add_working_days(prev_hearing_date, 2)
            THEN Res(OVERDUE, is_completed) ELSE Res(TIMELY, is_completed)
       ELSE IF get_working_days_between(prev_hearing_date, next_hearing_date) <= 2
       THEN Res(TIMELY, is_completed)
       ELSE Res(OVERDUE, is_completed)

evaluate_prev_to_next_hearing_row(r, date_today) ==
    LET prev_hearing_value == safe_get_column(r, "PREVIOUS_HEARING_DATE")
        next_hearing_value == safe_get_column(r, "NEXT_HEARING_DATE")
        is_completed == ~prev_hearing_value.no_data /\ ~next_hearing_value.no_data
        prev_hearing_date == prev_hearing_value.value
        next_hearing_date == next_hearing_value.value
    IN IF prev_hearing_value.no_data /\ next_hearing_value.no_data
       THEN Res(OVERDUE, is_completed)
       ELSE IF prev_hearing_value.no_data /\ ~next_hearing_value.no_data
       THEN IF to_datetime_raises(next_hearing_date) THEN Res(NO_DATA, FALSE)
            ELSE IF date_today > add_working_days(next_hearing_date, 2)
            THEN Res(OVERDUE, is_completed) ELSE Res(TIMELY, is_completed)
       ELSE IF to_datetime_raises(prev_hearing_date) THEN Res(NO_DATA, FALSE)
       ELSE IF next_hearing_value.no_data
       THEN IF date_today > add_working_days(prev_hearing_date, 2)
            THEN Res(OVERDUE, is_completed) ELSE Res(TIMELY, is_completed)
       ELSE IF to_datetime_raises(next_hearing_date) THEN Res(NO_DATA, FALSE)
       ELSE IF next_hearing_date < prev_hearing_date
       THEN IF date_today > add_working_days(prev_hearing_date, 2)
            THEN Res(OVERDUE, is_completed) ELSE Res(TIMELY, is_completed)
       ELSE IF get_working_days_between(prev_hearing_date, next_hearing_date) <= 2
       THEN Res(TIMELY, is_completed)
       ELSE Res(OVERDUE, is_completed)

evaluate_under_consideration_60days_row(r, today_) ==
    LET filing_date == get_filing_date(r)
        deadline_date == filing_date + 60
    IN IF filing_date = NaT THEN Res(NO_DATA, FALSE)
       ELSE IF today_ > deadline_date
            THEN Res(OVERDUE, FALSE) ELSE Res(TIMELY, FALSE)

evaluate_court_reaction_row(r, today_) ==
    LET determination_date_value == safe_get_column(r, "DETERMINATION_DATE")
        filing_date == get_filing_date(r)
        deadline_date == add_working_days(filing_date, 7)
    IN IF ~determination_date_value.no_data /\ pd_notna(determination_date_value.value)
       THEN Res(TIMELY, TRUE)
       ELSE IF filing_date = NaT THEN Res(NO_DATA, FALSE)
       ELSE IF today_ > deadline_date
            THEN Res(OVERDUE, FALSE) ELSE Res(TIMELY, FALSE)

evaluate_first_status_changed_row(r, today_) ==
    LET filing_date == get_filing_date(r)
        deadline_date == filing_date + 14
    IN IF filing_date = NaT THEN Res(NO_DATA, FALSE)
       ELSE IF today_ > deadline_date
            THEN Res(OVERDUE, FALSE) ELSE Res(TIMELY, FALSE)

-----------------------------------------------------------------------------
(* order_row_analyzer_v2.py *)

evaluate_order_closed_row(r, today_) ==
    LET filing_date == get_filing_date(r)
        deadline_date == filing_date + 90
        closing_date_value == safe_get_column(r, "CASE_CLOSING_DATE")
    IN IF filing_date = NaT THEN Res(NO_DATA, FALSE)
       ELSE IF pd_notna(closing_date_value.value) /\ ~closing_date_value.no_data
            THEN IF to_datetime_raises(closing_date_value.value) THEN Res(NO_DATA, FALSE)
                 ELSE IF closing_date_value.value <= deadline_date
                 THEN Res(TIMELY, TRUE) ELSE Res(OVERDUE, TRUE)
            ELSE IF today_ > deadline_date
                 THEN Res(OVERDUE, FALSE) ELSE Res(TIMELY, FALSE)

evaluate_order_execution_document_row(r, current_processed_documents) ==
    LET case_code == safe_get_text(r, "CASE_CODE")
        found == matching_docs(current_processed_documents, case_code.value)
    IN IF case_code.no_data THEN Res(NO_DATA, FALSE)
       ELSE IF current_processed_documents.is_none
               \/ Len(current_processed_documents.rows) = 0
            THEN Res(NO_DATA, FALSE)
       ELSE IF Len(found) > 0
            THEN Res(found[1].monitoringStatus,
                     found[1].responseEssence = TRANSFER_CONFIRMED)
       ELSE Res(NO_DATA, FALSE)

\* evaluate_order_court_reaction_row not looking at the case status
evaluate_order_court_reaction_row_any_status(r, today_) ==
    LET filing_date == get_filing_date(r)
        deadline_date == filing_date + 60
        court_determination == safe_get_text(r, "COURT_DETERMINATION")
        has_court_order == ~court_determination.no_data
                           /\ court_determination.value = COURT_ORDER
        has_receipt_date == ~safe_get_column(r, "ACTUAL_RECEIPT_DATE").no_data
        has_transfer_date == ~safe_get_column(r, "ACTUAL_TRANSFER_DATE").no_data
        all_conditions_met == has_court_order /\ has_receipt_date /\ has_transfer_date
        is_completed == all_conditions_met
    IN IF filing_date = NaT THEN Res(NO_DATA, FALSE)
       ELSE IF today_ > deadline_date
            THEN (IF all_conditions_met THEN Res(TIMELY, is_completed)
                  ELSE Res(OVERDUE, is_completed))
            ELSE Res(TIMELY, is_completed)

\* evaluate_order_court_reaction_row taking the court order alone for completion
evaluate_order_court_reaction_row_court_order_only(r, today_) ==
    LET filing_date == get_filing_date(r)
        deadline_date == filing_date + 60
        court_determination == safe_get_text(r, "COURT_DETERMINATION")
        has_court_order == ~court_determination.no_data
                           /\ court_determination.value = COURT_ORDER
        all_conditions_met == has_court_order
        is_completed == all_conditions_met
    IN IF filing_date = NaT THEN Res(NO_DATA, FALSE)
       ELSE IF today_ > deadline_date
            THEN (IF all_conditions_met THEN Res(TIMELY, is_completed)
                  ELSE Res(OVERDUE, is_completed))
            ELSE Res(TIMELY, is_completed)

evaluate_order_court_reaction_row(r, today_) ==
    LET filing_date == get_filing_date(r)
        deadline_date == filing_date + 60
        court_determination == safe_get_text(r, "COURT_DETERMINATION")
        has_court_order == ~court_determination.no_data
                           /\ court_determination.value = COURT_ORDER
        has_receipt_date == ~safe_get_column(r, "ACTUAL_RECEIPT_DATE").no_data
        has_transfer_date == ~safe_get_column(r, "ACTUAL_TRANSFER_DATE").no_data
        current_status == safe_get_text(r, "CASE_STATUS")
        has_correct_status == ~current_status.no_data
                              /\ current_status.value = CONDITIONALLY_CLOSED
        all_conditions_met == has_court_order /\ has_receipt_date
                              /\ has_transfer_date /\ has_correct_status
        is_completed == all_conditions_met
    IN IF filing_date = NaT THEN Res(NO_DATA, FALSE)
       ELSE IF today_ > deadline_date
            THEN (IF all_conditions_met THEN Res(TIMELY, is_completed)
                  ELSE Res(OVERDUE, is_completed))
            ELSE Res(TIMELY, is_completed)

evaluate_order_first_status_row(r, today_) ==
    LET filing_date == get_filing_date(r)
        deadline_date == filing_date + 14
        current_status == safe_get_text(r, "CASE_STATUS")
    IN IF filing_date = NaT THEN Res(NO_DATA, FALSE)
       ELSE IF ~current_status.no_data /\ current_status.value = AWAITING_COURT_RESPONSE
            THEN Res(TIMELY, FALSE)
       ELSE IF today_ > deadline_date /\ ~current_status.no_data
               /\ current_status.value = PREPARATION_OF_DOCUMENTS
            THEN Res(OVERDUE, FALSE)
       ELSE Res(TIMELY, FALSE)

-----------------------------------------------------------------------------
(* terms_checks_config.py: ordered mappings stage -> check names *)

LAWSUIT_CHECKS_MAPPING ==
    << [stage |-> "exceptions", checks |-> <<"exceptionStatus">>],
       [stage |-> "underConsideration",
        checks |-> <<"nextHearing3days", "hearingInterval2days", "consideration60days">>],
       [stage |-> "decisionMade",
        checks |-> <<"decision45days", "decisionReceipt3days", "decisionTransfer1day">>],
       [stage |-> "courtReaction", checks |-> <<"courtReaction7days">>],
       [stage |-> "firstStatusChanged", checks |-> <<"firstStatusChanged14days">>],
       [stage |-> "closed", checks |-> <<"closed125days">>],
       [stage |-> "executionDocumentReceived", checks |-> <<"executionDocumentReceivedL">>] >>

ORDER_CHECKS_MAPPING ==
    << [stage |-> "exceptions", checks |-> <<"exceptionStatus">>],
       [stage |-> "closed", checks |-> <<"closed90Days">>],
       [stage |-> "executionDocumentReceived", checks |-> <<"executionDocumentReceivedO">>],
       [stage |-> "courtReaction", checks |-> <<"courtReaction60Days">>],
       [stage |-> "firstStatusChanged", checks |-> <<"firstStatus14Days">>] >>

\* list(mapping.keys())
keys(mapping) == [i \in 1..Len(mapping) |-> mapping[i].stage]

\* mapping.get(stage, []): the checks configured for a stage
checks_of(mapping, stage) ==
    IF \E i \in 1..Len(mapping) : mapping[i].stage = stage
    THEN mapping[CHOOSE i \in 1..Len(mapping) : mapping[i].stage = stage].checks
    ELSE <<>>

-----------------------------------------------------------------------------
(* lawsuit_stage_checks_v2.py / order_stage_checks_v2.py *)

\* _combine_results leaving out the checks without data
_combine_results_dropping_no_data(results) ==
    LET kept == SelectSeq(results, LAMBDA x : x # NO_DATA)
    IN IF Len(kept) > 0 THEN join(kept) ELSE NO_DATA

_combine_results(results) ==
    IF Len(results) > 0 THEN join(results) ELSE NO_DATA

_combine_completion_statuses(completion_statuses) ==
    IF Len(completion_statuses) > 0
    THEN join([i \in 1..Len(completion_statuses) |->
                  lower(StrBool(completion_statuses[i]))])
    ELSE Str("false")

Combined(statuses, completions) ==
    [monitoring_status |-> _combine_results(statuses),
     completion_status |-> _combine_completion_statuses(completions)]

check_lawsuit_exceptions_stage(r, today_) ==
    Combined(<<evaluate_exceptions_row(r)>>, <<TRUE>>)

check_lawsuit_closed_stage(r, today_) ==
    LET res == evaluate_closed_row(r, today_)
    IN Combined(<<res.status>>, <<res.is_completed>>)

check_lawsuit_execution_document_received_stage(r, today_, docs) ==
    LET res == evaluate_execution_document_received_row(r, docs)
    IN Combined(<<res.status>>, <<res.is_completed>>)

\* check_decision_made_stage with the receipt check run first
check_lawsuit_decision_made_stage_reordered(r, today_) ==
    LET r1 == evaluate_decision_date_row(r, today_)
        r2 == evaluate_decision_receipt_row(r, today_)
        r3 == evaluate_decision_transfer_row(r, today_)
    IN Combined(<<r2.status, r1.status, r3.status>>,
                <<r2.is_completed, r1.is_completed, r3.is_completed>>)

check_lawsuit_decision_made_stage(r, today_) ==
    LET r1 == evaluate_decision_date_row(r, today_)
        r2 == evaluate_decision_receipt_row(r, today_)
        r3 == evaluate_decision_transfer_row(r, today_)
    IN Combined(<<r1.status, r2.status, r3.status>>,
                <<r1.is_completed, r2.is_completed, r3.is_completed>>)

check_lawsuit_under_consideration_stage(r, today_, date_today) ==
    LET r1 == evaluate_next_hearing_present_row(r, today_)
        r2 == evaluate_prev_to_next_hearing_row(r, date_today)
        r3 == evaluate_under_consideration_60days_row(r, today_)
    IN Combined(<<r1.status, r2.status, r3.status>>,
                <<r1.is_completed, r2.is_completed, r3.is_completed>>)

check_lawsuit_court_reaction_stage(r, today_) ==
    LET res == evaluate_court_reaction_row(r, today_)
    IN Combined(<<res.status>>, <<res.is_completed>>)

check_lawsuit_first_status_changed_stage(r, today_) ==
    LET res == evaluate_first_status_changed_row(r, today_)
    IN Combined(<<res.status>>, <<res.is_completed>>)

check_order_exceptions_stage(r, today_) ==
    Combined(<<evaluate_exceptions_row(r)>>, <<TRUE>>)

check_order_closed_stage(r, today_) ==
    LET res == evaluate_order_closed_row(r, today_)
    IN Combined(<<res.status>>, <<res.is_completed>>)

check_order_execution_document_received_stage(r, today_, docs) ==
    LET res == evaluate_order_execution_document_row(r, docs)
    IN Combined(<<res.status>>, <<res.is_completed>>)

check_order_court_reaction_stage(r, today_) ==
    LET res == evaluate_order_court_reaction_row(r, today_)
    IN Combined(<<res.status>>, <<res.is_completed>>)

check_order_first_status_changed_stage(r, today_) ==
    LET res == evaluate_order_first_status_row(r, today_)
    IN Combined(<<res.status>>, <<res.is_completed>>)

-----------------------------------------------------------------------------
(* terms_analyzer_v2.py: build_production_table *)

ProductionTypes == {"lawsuit", "order"}

assign_stages(ptype, r) ==
    IF ptype = "lawsuit" THEN assign_lawsuit_stages(r) ELSE assign_order_stages(r)

\* calculate_row_status running the checks of the last stage of the mapping on
\* a case of no stage
calculate_row_status_outside_as_last_stage(ptype, r, stage, today_, date_today, docs) ==
    IF ptype = "lawsuit"
    THEN LET stages == keys(LAWSUIT_CHECKS_MAPPING)
         IN IF stage = stages[1] THEN check_lawsuit_exceptions_stage(r, today_)
            ELSE IF stage = stages[2]
                 THEN check_lawsuit_under_consideration_stage(r, today_, date_today)
            ELSE IF stage = stages[3] THEN check_lawsuit_decision_made_stage(r, today_)
            ELSE IF stage = stages[4] THEN check_lawsuit_court_reaction_stage(r, today_)
            ELSE IF stage = stages[5]
                 THEN check_lawsuit_first_status_changed_stage(r, today_)
            ELSE IF stage = stages[6] THEN check_lawsuit_closed_stage(r, today_)
            ELSE IF stage = stages[7]
                 THEN check_lawsuit_execution_document_received_stage(r, today_, docs)
            ELSE check_lawsuit_execution_document_received_stage(r, today_, docs)
    ELSE LET stages == keys(ORDER_CHECKS_MAPPING)
         IN IF stage = stages[1] THEN check_order_exceptions_stage(r, today_)
            ELSE IF stage = stages[2] THEN check_order_closed_stage(r, today_)
            ELSE IF stage = stages[3]
                 THEN check_order_execution_document_received_stage(r, today_, docs)
            ELSE IF stage = stages[4] THEN check_order_court_reaction_stage(r, today_)
            ELSE IF stage = stages[5]
                 THEN check_order_first_status_changed_stage(r, today_)
            ELSE check_order_first_status_changed_stage(r, today_)

\* the inner function calculate_row_status; indices are 1-based here
calculate_row_status(ptype, r, stage, today_, date_today, docs) ==
    IF ptype = "lawsuit"
    THEN LET stages == keys(LAWSUIT_CHECKS_MAPPING)
         IN IF stage = stages[1] THEN check_lawsuit_exceptions_stage(r, today_)
            ELSE IF stage = stages[2]
                 THEN check_lawsuit_under_consideration_stage(r, today_, date_today)
            ELSE IF stage = stages[3] THEN check_lawsuit_decision_made_stage(r, today_)
            ELSE IF stage = stages[4] THEN check_lawsuit_court_reaction_stage(r, today_)
            ELSE IF stage = stages[5]
                 THEN check_lawsuit_first_status_changed_stage(r, today_)
            ELSE IF stage = stages[6] THEN check_lawsuit_closed_stage(r, today_)
            ELSE IF stage = stages[7]
                 THEN check_lawsuit_execution_document_received_stage(r, today_, docs)
            ELSE [monitoring_status |-> NO_DATA, completion_status |-> Str("false")]
    ELSE LET stages == keys(ORDER_CHECKS_MAPPING)
         IN IF stage = stages[1] THEN check_order_exceptions_stage(r, today_)
            ELSE IF stage = stages[2] THEN check_order_closed_stage(r, today_)
            ELSE IF stage = stages[3]
                 THEN check_order_execution_document_received_stage(r, today_, docs)
            ELSE IF stage = stages[4] THEN check_order_court_reaction_stage(r, today_)
            ELSE IF stage = stages[5]
                 THEN check_order_first_status_changed_stage(r, today_)
            ELSE [monitoring_status |-> NO_DATA, completion_status |-> Str("false")]

-----------------------------------------------------------------------------
(* Input tables of the model *)

EmptyRow ==
    [CASE_CODE |-> "CP-CASE-0000001",
     CASE_STATUS |-> NaN,
     FIRST_LAWSUIT_FILING_DATE |-> NaT,
     LAWSUIT_FILING_DATE |-> NaT,
     LAST_REQUEST_DATE_IN_UP |-> NaT,
     CASE_CLOSING_DATE |-> NaT,
     ACTUAL_TRANSFER_DATE |-> NaT,
     ACTUAL_RECEIPT_DATE |-> NaT,
     CHARACTERISTICS_FINAL_COURT_ACT |-> NaN,
     DECISION_COURT_DATE |-> NaT,
     COURT_DECISION_DATE |-> NaT,
     DECISION_RECEIPT_DATE |-> NaT,
     DETERMINATION_DATE |-> NaT,
     NEXT_HEARING_DATE |-> NaT,
     PREVIOUS_HEARING_DATE |-> NaT,
     COURT_DETERMINATION |-> NaN]

\* every status against every combination of the dates the classifiers look at
ClassifyRows ==
    { [EmptyRow EXCEPT !.CASE_STATUS = st, !.CASE_CLOSING_DATE = cl,
                       !.ACTUAL_TRANSFER_DATE = tr, !.ACTUAL_RECEIPT_DATE = rc,
                       !.CHARACTERISTICS_FINAL_COURT_ACT = ch,
                       !.LAWSUIT_FILING_DATE = fd] :
        st \in CaseStatuses, cl \in {NaT, Day0 - 10}, tr \in {NaT, Day0 - 9},
        rc \in {NaT, Day0 - 11}, ch \in {NaN, "Decision"},
        fd \in {NaT, Day0 - 14, Day0 - 90, Day0 - 125, Day0 - 150} }

UnderConsiderationRows ==
    { [EmptyRow EXCEPT !.CASE_STATUS = UNDER_CONSIDERATION,
                       !.DETERMINATION_DATE = dt, !.NEXT_HEARING_DATE = nh,
                       !.PREVIOUS_HEARING_DATE = ph, !.LAWSUIT_FILING_DATE = fd] :
        dt \in {NaT, Day0 - 5, Day0 - 3},
        nh \in {NaT, Day0 - 6, Day0 - 3, Day0 + 4},
        ph \in {NaT, Day0 - 4, Day0 - 3},
        fd \in {NaT, Day0 - 60} }

DecisionMadeRows ==
    { [EmptyRow EXCEPT !.CASE_STATUS = DECISION_MADE,
                       !.DECISION_COURT_DATE = dc, !.COURT_DECISION_DATE = cd,
                       !.DECISION_RECEIPT_DATE = dr] :
        dc \in {NaT, Day0 - 45, Day0 - 50},
        cd \in {NaT, Day0 - 4, Day0 - 3, Day0 - 1},
        dr \in {NaT, Day0 - 1, Day0} }

CourtReactionRows ==
    { [EmptyRow EXCEPT !.CASE_STATUS = AWAITING_COURT_RESPONSE,
                       !.DETERMINATION_DATE = dt, !.LAWSUIT_FILING_DATE = fd,
                       !.COURT_DETERMINATION = cdn] :
        dt \in {NaT, Day0 - 1}, fd \in {NaT, Day0 - 60, Day0 - 12, Day0 - 9},
        cdn \in {NaN, COURT_ORDER} }

FirstStatusRows ==
    { [EmptyRow EXCEPT !.CASE_STATUS = PREPARATION_OF_DOCUMENTS,
                       !.FIRST_LAWSUIT_FILING_DATE = f1, !.LAWSUIT_FILING_DATE = f2,
                       !.LAST_REQUEST_DATE_IN_UP = f3] :
        f1 \in {NaT, Day0 - 14}, f2 \in {NaT, Day0 - 15}, f3 \in {NaT, Day0 - 13} }

ExecutionRows ==
    { [EmptyRow EXCEPT !.CASE_STATUS = st, !.ACTUAL_RECEIPT_DATE = rc,
                       !.CASE_CODE = cc] :
        st \in {COURT_ACT_IN_FORCE, CONDITIONALLY_CLOSED},
        rc \in {NaT, Day0 - 1},
        cc \in {NaN, "CP-CASE-0000002"} }

\* rows of a sheet in which a date cell holds text that is not a date: the reports
\* are loaded without any conversion of the date columns
MalformedRows ==
    { [EmptyRow EXCEPT !.CASE_STATUS = DECISION_MADE,
                       !.DECISION_COURT_DATE = dc, !.COURT_DECISION_DATE = cd,
                       !.DECISION_RECEIPT_DATE = dr] :
        dc \in {Day0 - 45, Malformed}, cd \in {NaT, Day0 - 3, Malformed},
        dr \in {Day0 - 1, Malformed} }
    \cup
    { [EmptyRow EXCEPT !.CASE_STATUS = UNDER_CONSIDERATION,
                       !.DETERMINATION_DATE = dt, !.NEXT_HEARING_DATE = nh,
                       !.PREVIOUS_HEARING_DATE = ph, !.LAWSUIT_FILING_DATE = fd] :
        dt \in {Day0 - 3, Malformed}, nh \in {NaT, Day0 - 3, Malformed},
        ph \in {NaT, Day0 - 4, Malformed}, fd \in {Day0 - 60, Malformed} }
    \cup
    { [EmptyRow EXCEPT !.CASE_STATUS = st, !.CASE_CLOSING_DATE = cl,
                       !.FIRST_LAWSUIT_FILING_DATE = f1, !.LAWSUIT_FILING_DATE = f2] :
        st \in {CLOSED, AWAITING_COURT_RESPONSE, PREPARATION_OF_DOCUMENTS},
        cl \in {NaT, Day0 - 10, Malformed}, f1 \in {NaT, Malformed},
        f2 \in {Day0 - 90, Malformed} }

\* cases with a decision whose execution document has been handed over
TransferredRows ==
    { [EmptyRow EXCEPT !.CASE_STATUS = DECISION_MADE,
                       !.COURT_DECISION_DATE = Day0 - 3,
                       !.ACTUAL_TRANSFER_DATE = tr] :
        tr \in {Day0 - 2, Day0 - 1} }

BuildRows ==
    ClassifyRows \cup UnderConsiderationRows \cup DecisionMadeRows
    \cup CourtReactionRows \cup FirstStatusRows \cup ExecutionRows
    \cup MalformedRows \cup TransferredRows

Doc(cc, dep, doc, st, re) ==
    [caseCode |-> cc, department |-> dep, document |-> doc,
     monitoringStatus |-> st, responseEssence |-> re]

\* results of the document analysis that may be stored as documents_processed
DocTables ==
    { Table(<<>>),
      Table(<<Doc("CP-CASE-0000001", PSIP, EXECUTION_LIST, TIMELY, TRANSFER_CONFIRMED)>>),
      Table(<<Doc("CP-CASE-0000002", PSIP, EXECUTION_LIST, TIMELY, TRANSFER_CONFIRMED),
              Doc("CP-CASE-0000001", "GOSB", EXECUTION_LIST, TIMELY, TRANSFER_CONFIRMED),
              Doc("CP-CASE-0000001", PSIP, "Decision", TIMELY, TRANSFER_CONFIRMED),
              Doc("CP-CASE-0000001", PSIP, EXECUTION_LIST, OVERDUE, "Requested"),
              Doc("CP-CASE-0000001", PSIP, EXECUTION_LIST, NO_DATA, TRANSFER_CONFIRMED)>>) }

-----------------------------------------------------------------------------
(* Specification of build_production_table over one case row *)

NotBuilt == "<not built>"
NoException == "<none>"

\* values of the variables a specification does not use
IdleBuild ==
    /\ production_type = "lawsuit" /\ row = EmptyRow /\ clock = Day0
    /\ documents_processed = NoTable /\ today = NaT /\ wall = NaT
    /\ docs_read = NoTable
    /\ caseStage = NotBuilt /\ monitoringStatus = <<>> /\ completionStatus = <<>>
IdleEval ==
    /\ evCheck = "" /\ evRow = EmptyRow /\ evToday = NaT /\ evResult = Res(<<>>, FALSE)
IdleTasks ==
    /\ task_counter = 1 /\ staged = <<>> /\ task_mappings = <<>> /\ tasks = <<>>
    /\ runs = 0 /\ callers = <<>>
IdleCond ==
    /\ condRow = <<>> /\ condConfig = <<>> /\ condResult = "<not called>"
IdleRoute ==
    /\ response = <<>> /\ raised = NoException /\ loaded = FALSE /\ requests = 0

\* DataManager.__init__: the raw, cleaned and coloured stores hold None for both reports
NoReports == [detailed_report |-> NoTable, documents_report |-> NoTable]
NoLoad == [call |-> "<none>", filepath |-> "", raised |-> NoException, value |-> NoTable]
IdleLoad ==
    /\ cleaned_data = NoReports /\ raw_data = NoReports /\ colored_data = NoReports
    /\ cleanings = [detailed_report |-> 0, documents_report |-> 0]
    /\ load_result = NoLoad

Init ==
    /\ production_type \in ProductionTypes
    /\ row \in BuildRows
    /\ clock = Day0
    /\ documents_processed = NoTable
    /\ today = NaT /\ wall = NaT /\ docs_read = NoTable
    /\ caseStage = NotBuilt /\ monitoringStatus = <<>> /\ completionStatus = <<>>
    /\ IdleEval /\ IdleTasks /\ IdleCond /\ IdleRoute /\ IdleLoad

\* the date changes
Tick ==
    /\ clock < Day0 + MaxTick
    /\ clock' = clock + 1
    /\ UNCHANGED <<production_type, row, documents_processed, today, wall, docs_read,
                   caseStage, monitoringStatus, completionStatus>>
    /\ UNCHANGED <<evalVars, taskVars, condVars, routeVars, loadVars>>

\* the document analysis stores its result: set_processed_data("documents_processed", ...)
StoreDocuments ==
    /\ \E t \in DocTables :
          /\ t # documents_processed
          /\ documents_processed' = t
    /\ UNCHANGED <<production_type, row, clock, today, wall, docs_read,
                   caseStage, monitoringStatus, completionStatus>>
    /\ UNCHANGED <<evalVars, taskVars, condVars, routeVars, loadVars>>

\* build_production_table(df, production_type): today is read once from the clock
\* and passed to the runners; the evaluators that call date.today() read the clock
\* again, at the time they run (the date may have changed meanwhile).
BuildProductionTable ==
    /\ production_type \in ProductionTypes
    /\ \E date_today \in {clock, clock + 1} :
          /\ date_today <= Day0 + MaxTick
          /\ LET stage == assign_stages(production_type, row)
                 res == calculate_row_status(production_type, row, stage, clock,
                                             date_today, documents_processed)
             IN /\ today' = clock
                /\ wall' = date_today
                /\ docs_read' = documents_processed
                /\ clock' = date_today
                /\ caseStage' = stage
                /\ monitoringStatus' = res.monitoring_status
                /\ completionStatus' = res.completion_status
    /\ UNCHANGED <<production_type, row, documents_processed>>
    /\ UNCHANGED <<evalVars, taskVars, condVars, routeVars, loadVars>>

Next == Tick \/ StoreDocuments \/ BuildProductionTable

Spec == Init /\ [][Next]_vars

-----------------------------------------------------------------------------
(* Claims about classification and the stage checks (specification Spec) *)

Built == caseStage # NotBuilt

LawsuitStages ==
    {"exceptions", "closed", "executionDocumentReceived", "decisionMade",
     "underConsideration", "courtReaction", "firstStatusChanged",
     "outside_stage_filters"}

OrderStages == LawsuitStages \ {"decisionMade", "underConsideration"}

\* C1: for both production types the classification of a case yields one stage
\* label, never null or empty, from the closed set of the production type.
C1_Totality ==
    Built =>
        /\ caseStage # "" /\ caseStage # NaN
        /\ production_type = "lawsuit" => caseStage \in LawsuitStages
        /\ production_type = "order" => caseStage \in OrderStages

C1_Witness ==
    /\ Built /\ production_type = "order"
    /\ row.CASE_STATUS = UNDER_CONSIDERATION
    /\ caseStage = "outside_stage_filters"

ExceptionKinds ==
    {Str("reopened"), Str("complaint_filed"), Str("error_dublicate"),
     Str("withdraw_by_the_initiator")}

\* C15: a case of either production type classified into stage exceptions has a
\* single check: monitoringStatus is the exception kind (reopened,
\* complaint_filed, error_dublicate or withdraw_by_the_initiator, never timely,
\* overdue or no_data) and completionStatus is "true".
C15_ExceptionsStatus ==
    (Built /\ caseStage = "exceptions") =>
        /\ Len(split(monitoringStatus)) = 1 /\ Len(split(completionStatus)) = 1
        /\ monitoringStatus \in ExceptionKinds
        /\ monitoringStatus \notin {TIMELY, OVERDUE, NO_DATA}
        /\ completionStatus = Str("true")

\* a withdrawn order case that also has a closing date
C15_Witness ==
    /\ Built /\ production_type = "order" /\ caseStage = "exceptions"
    /\ row.CASE_STATUS = WITHDRAWN_BY_THE_INITIATOR
    /\ row.CASE_CLOSING_DATE # NaT
    /\ monitoringStatus = Str("withdraw_by_the_initiator")
    /\ completionStatus = Str("true")

\* the positions of the execution lists of the case in the table the build read
ExecutionLists ==
    { i \in 1..Len(docs_read.rows) :
         /\ docs_read.rows[i].caseCode = row.CASE_CODE
         /\ docs_read.rows[i].department = PSIP
         /\ docs_read.rows[i].document = EXECUTION_LIST }

FirstExecutionList ==
    docs_read.rows[CHOOSE i \in ExecutionLists : \A j \in ExecutionLists : i <= j]

\* C18: for a lawsuit or order case in stage executionDocumentReceived the
\* status is the monitoringStatus of the processed document record with the
\* case's code, department "ПСИП" and document "Исполнительный лист" (the first
\* one in the table), completed iff its responseEssence is "Передача
\* подтверждена"; without a case code, without a table, with an empty table or
\* without such a record the result is (no_data, false).
C18_ExecutionDocumentJoin ==
    (Built /\ caseStage = "executionDocumentReceived") =>
        IF row.CASE_CODE = NaN \/ docs_read.is_none \/ ExecutionLists = {}
        THEN monitoringStatus = Str("no_data") /\ completionStatus = Str("false")
        ELSE /\ monitoringStatus = FirstExecutionList.monitoringStatus
             /\ completionStatus =
                    IF FirstExecutionList.responseEssence = TRANSFER_CONFIRMED
                    THEN Str("true") ELSE Str("false")

\* an order case whose execution list is the second record of its case in the
\* table, after a record of another department
C18_Witness ==
    /\ Built /\ production_type = "order" /\ caseStage = "executionDocumentReceived"
    /\ row.CASE_CODE = "CP-CASE-0000001"
    /\ Len(docs_read.rows) = 5 /\ ExecutionLists = {4, 5}
    /\ monitoringStatus = Str("overdue")
    /\ completionStatus = Str("false")

LawsuitPredicates(r) ==
    << [label |-> "exceptions",
        holds |-> r.CASE_STATUS \in {REOPENED, COMPLAINT_FILED, ERROR_DUBLICATE,
                                     WITHDRAWN_BY_THE_INITIATOR}],
       [label |-> "closed",
        holds |-> r.CASE_STATUS \in {CLOSED, CONDITIONALLY_CLOSED}
                  \/ r.CASE_CLOSING_DATE # NaT],
       [label |-> "executionDocumentReceived",
        holds |-> r.CASE_STATUS = COURT_ACT_IN_FORCE
                  \/ r.ACTUAL_TRANSFER_DATE # NaT \/ r.ACTUAL_RECEIPT_DATE # NaT],
       [label |-> "decisionMade",
        holds |-> r.CASE_STATUS = DECISION_MADE
                  \/ r.CHARACTERISTICS_FINAL_COURT_ACT # NaN],
       [label |-> "underConsideration", holds |-> r.CASE_STATUS = UNDER_CONSIDERATION],
       [label |-> "courtReaction", holds |-> r.CASE_STATUS = AWAITING_COURT_RESPONSE],
       [label |-> "firstStatusChanged",
        holds |-> r.CASE_STATUS = PREPARATION_OF_DOCUMENTS] >>

\* the label of the first predicate that holds, the catch-all when none does
FirstMatch(preds) ==
    IF \E i \in 1..Len(preds) : preds[i].holds
    THEN preds[CHOOSE i \in 1..Len(preds) :
                  preds[i].holds /\ \A j \in 1..(i-1) : ~preds[j].holds].label
    ELSE "outside_stage_filters"

\* C2: assign_lawsuit_stages is first-match-wins over the ordered predicates; a
\* record matching the exceptions predicate and any other is classified exceptions.
C2_FirstMatchWins ==
    (Built /\ production_type = "lawsuit") =>
        /\ caseStage = FirstMatch(LawsuitPredicates(row))
        /\ LawsuitPredicates(row)[1].holds => caseStage = "exceptions"

C2_Witness ==
    /\ Built /\ production_type = "lawsuit"
    /\ row.CASE_STATUS = REOPENED /\ row.CASE_CLOSING_DATE # NaT
    /\ caseStage = "exceptions"

\* the predicates of the order stages, in priority order
OrderPredicates(r) ==
    << [label |-> "exceptions",
        holds |-> r.CASE_STATUS \in {REOPENED, COMPLAINT_FILED, ERROR_DUBLICATE,
                                     WITHDRAWN_BY_THE_INITIATOR}],
       [label |-> "closed",
        holds |-> r.CASE_STATUS = CLOSED \/ r.CASE_CLOSING_DATE # NaT],
       [label |-> "executionDocumentReceived",
        holds |-> r.CASE_STATUS = CONDITIONALLY_CLOSED
                  \/ r.ACTUAL_RECEIPT_DATE # NaT \/ r.ACTUAL_TRANSFER_DATE # NaT],
       [label |-> "courtReaction", holds |-> r.CASE_STATUS = AWAITING_COURT_RESPONSE],
       [label |-> "firstStatusChanged",
        holds |-> r.CASE_STATUS = PREPARATION_OF_DOCUMENTS] >>

\* C27: assign_order_stages gives the label of the first predicate that holds in
\* the order exceptions, closed, executionDocumentReceived, courtReaction,
\* firstStatusChanged, and outside_stage_filters when none holds; no order case
\* is decisionMade or underConsideration.
C27_OrderFirstMatchWins ==
    (Built /\ production_type = "order") =>
        /\ caseStage = FirstMatch(OrderPredicates(row))
        /\ caseStage \notin {"decisionMade", "underConsideration"}

\* a conditionally closed order case with a closing date and a receipt date is
\* closed
C27_Witness ==
    /\ Built /\ production_type = "order"
    /\ row.CASE_STATUS = CONDITIONALLY_CLOSED
    /\ row.CASE_CLOSING_DATE # NaT /\ row.ACTUAL_RECEIPT_DATE # NaT
    /\ caseStage = "closed"

\* the first filled filing column of the row
FilingCell(r) ==
    IF r.FIRST_LAWSUIT_FILING_DATE # NaT THEN r.FIRST_LAWSUIT_FILING_DATE
    ELSE IF r.LAWSUIT_FILING_DATE # NaT THEN r.LAWSUIT_FILING_DATE
    ELSE r.LAST_REQUEST_DATE_IN_UP

\* C29: an order case in the courtReaction stage is never completed, and when its
\* filing date is present its status is overdue exactly when today is later than
\* the filing date plus 60 days.
C29_OrderCourtReactionNeverCompleted ==
    (Built /\ production_type = "order" /\ caseStage = "courtReaction") =>
        /\ completionStatus = Str("false")
        /\ FilingCell(row) \notin {NaT, Malformed} =>
              (monitoringStatus = OVERDUE <=> today > FilingCell(row) + 60)

\* an order case awaiting the court's response with a court order, built on the
\* day after the deadline: overdue and not completed
C29_Witness ==
    /\ Built /\ production_type = "order" /\ caseStage = "courtReaction"
    /\ row.COURT_DETERMINATION = COURT_ORDER
    /\ FilingCell(row) = Day0 - 60 /\ today = Day0 + 1
    /\ monitoringStatus = OVERDUE
    /\ completionStatus = Str("false")

\* C30: in a lawsuit case of the decisionMade stage the third check of the stage
\* (decisionTransfer1day) is not completed: the last part of completionStatus is
\* "false".
C30_DecisionTransferNeverCompleted ==
    (Built /\ production_type = "lawsuit" /\ caseStage = "decisionMade") =>
        /\ row.ACTUAL_TRANSFER_DATE = NaT
        /\ Len(split(completionStatus)) = 3
        /\ split(completionStatus)[3] = Str("false")

\* a lawsuit case with a decision made three days ago and not yet transferred:
\* the transfer check is overdue and not completed
C30_Witness ==
    /\ Built /\ production_type = "lawsuit" /\ caseStage = "decisionMade"
    /\ row.COURT_DECISION_DATE = Day0 - 3
    /\ split(monitoringStatus)[3] = OVERDUE
    /\ split(completionStatus)[3] = Str("false")

ChecksMapping(ptype) ==
    IF ptype = "lawsuit" THEN LAWSUIT_CHECKS_MAPPING ELSE ORDER_CHECKS_MAPPING

ConfiguredChecks == checks_of(ChecksMapping(production_type), caseStage)

\* C3 as stated: in every stage the number of parts of monitoringStatus equals the
\* number of parts of completionStatus and the number of checks configured for the
\* stage.
C3_LengthEveryStage ==
    Built =>
        /\ Len(split(monitoringStatus)) = Len(split(completionStatus))
        /\ Len(split(monitoringStatus)) = Len(ConfiguredChecks)

\* C3 amended: the three numbers agree in every stage that has an entry in the
\* checks mapping; a case in outside_stage_filters, for which no check is
\* configured, has one part in each string.
C3_LengthConfiguredStages ==
    Built =>
        /\ Len(split(monitoringStatus)) = Len(split(completionStatus))
        /\ caseStage # "outside_stage_filters" =>
              Len(split(monitoringStatus)) = Len(ConfiguredChecks)
        /\ caseStage = "outside_stage_filters" =>
              Len(ConfiguredChecks) = 0 /\ Len(split(monitoringStatus)) = 1

C3_Witness ==
    /\ Built /\ caseStage = "decisionMade"
    /\ Len(split(monitoringStatus)) = 3
    /\ \E i \in 1..3 : split(monitoringStatus)[i] = NO_DATA

\* the evaluator each check name of the mappings stands for
EvaluatorOf(name, r, today_, date_today, docs) ==
    CASE name = "exceptionStatus" -> Res(evaluate_exceptions_row(r), TRUE)
      [] name = "nextHearing3days" -> evaluate_next_hearing_present_row(r, today_)
      [] name = "hearingInterval2days" -> evaluate_prev_to_next_hearing_row(r, date_today)
      [] name = "consideration60days" -> evaluate_under_consideration_60days_row(r, today_)
      [] name = "decision45days" -> evaluate_decision_date_row(r, today_)
      [] name = "decisionReceipt3days" -> evaluate_decision_receipt_row(r, today_)
      [] name = "decisionTransfer1day" -> evaluate_decision_transfer_row(r, today_)
      [] name = "courtReaction7days" -> evaluate_court_reaction_row(r, today_)
      [] name = "firstStatusChanged14days" -> evaluate_first_status_changed_row(r, today_)
      [] name = "closed125days" -> evaluate_closed_row(r, today_)
      [] name = "executionDocumentReceivedL" ->
             evaluate_execution_document_received_row(r, docs)
      [] name = "closed90Days" -> evaluate_order_closed_row(r, today_)
      [] name = "executionDocumentReceivedO" ->
             evaluate_order_execution_document_row(r, docs)
      [] name = "courtReaction60Days" -> evaluate_order_court_reaction_row(r, today_)
      [] name = "firstStatus14Days" -> evaluate_order_first_status_row(r, today_)

\* C4: the i-th part of monitoringStatus / completionStatus is the result of the
\* i-th check configured for the stage; no check is dropped or reordered.
C4_PositionAligned ==
    (Built /\ caseStage # "outside_stage_filters") =>
        /\ Len(split(monitoringStatus)) = Len(ConfiguredChecks)
        /\ Len(split(completionStatus)) = Len(ConfiguredChecks)
        /\ \A i \in 1..Len(ConfiguredChecks) :
              LET e == EvaluatorOf(ConfiguredChecks[i], row, today, wall, docs_read)
              IN /\ split(monitoringStatus)[i] = e.status
                 /\ split(completionStatus)[i] =
                       (IF e.is_completed THEN Str("true") ELSE Str("false"))

C4_Witness ==
    /\ Built /\ caseStage = "decisionMade"
    /\ split(monitoringStatus) = <<NO_DATA, TIMELY, OVERDUE>>
    /\ split(completionStatus) = <<Str("false"), Str("true"), Str("false")>>
    /\ ConfiguredChecks = <<"decision45days", "decisionReceipt3days", "decisionTransfer1day">>

\* C6: two runs on the same case with the same today passed to the runners and
\* the same document table yield the same stage and statuses.
C6_SameInputsSameOutputs ==
    [][(/\ Built /\ Built'
        /\ row' = row /\ production_type' = production_type
        /\ today' = today /\ docs_read' = docs_read)
       => (/\ caseStage' = caseStage
           /\ monitoringStatus' = monitoringStatus
           /\ completionStatus' = completionStatus)]_vars

-----------------------------------------------------------------------------
(* The row evaluators applied one at a time (specification SpecEval) *)

\* the generic deadline checks: the columns of the anchor, the offset, whether
\* the offset counts working days, and the column of the completion date
GenericChecks ==
    << [name |-> "closed125days", filing |-> TRUE, anchor |-> "", n |-> 125,
        working |-> FALSE, completion |-> "CASE_CLOSING_DATE"],
       [name |-> "closed90Days", filing |-> TRUE, anchor |-> "", n |-> 90,
        working |-> FALSE, completion |-> "CASE_CLOSING_DATE"],
       [name |-> "decision45days", filing |-> FALSE, anchor |-> "DECISION_COURT_DATE",
        n |-> 45, working |-> FALSE, completion |-> "COURT_DECISION_DATE"],
       [name |-> "decisionReceipt3days", filing |-> FALSE,
        anchor |-> "COURT_DECISION_DATE", n |-> 3, working |-> FALSE,
        completion |-> "DECISION_RECEIPT_DATE"],
       [name |-> "decisionTransfer1day", filing |-> FALSE,
        anchor |-> "COURT_DECISION_DATE", n |-> 1, working |-> FALSE,
        completion |-> "ACTUAL_TRANSFER_DATE"],
       [name |-> "consideration60days", filing |-> TRUE, anchor |-> "", n |-> 60,
        working |-> FALSE, completion |-> ""],
       [name |-> "firstStatusChanged14days", filing |-> TRUE, anchor |-> "", n |-> 14,
        working |-> FALSE, completion |-> ""],
       [name |-> "nextHearing3days", filing |-> FALSE, anchor |-> "DETERMINATION_DATE",
        n |-> 3, working |-> TRUE, completion |-> "NEXT_HEARING_DATE"] >>

GenericCheckNames == { GenericChecks[i].name : i \in 1..Len(GenericChecks) }

FilingColumns ==
    {"FIRST_LAWSUIT_FILING_DATE", "LAWSUIT_FILING_DATE", "LAST_REQUEST_DATE_IN_UP"}

\* the n-th working day after day a
WorkingDeadline(a, n) ==
    CHOOSE d \in a..(a + 3 * n + 7) :
        /\ Cardinality({x \in (a + 1)..d : is_working_day(x)}) = n
        /\ is_working_day(d)

DeadlineOf(c, a) == IF c.working THEN WorkingDeadline(a, c.n) ELSE a + c.n

AnchorDates == 0..MaxAnchor

\* rows made for a check: the anchor absent or present, the completion date
\* absent or around the deadline
RowsFor(c) ==
    LET anchorCols == IF c.filing THEN FilingColumns ELSE {c.anchor}
        anchored == { [EmptyRow EXCEPT ![col] = a] : col \in anchorCols, a \in AnchorDates }
        deadline(r) == DeadlineOf(c, CHOOSE a \in AnchorDates :
                                        \E col \in anchorCols : r[col] = a)
        completed == IF c.completion = "" THEN {}
                     ELSE { [r EXCEPT ![c.completion] = deadline(r) + k] :
                               r \in anchored, k \in {-1, 0, 1} }
        unanchored == IF c.completion = "" THEN {EmptyRow}
                      ELSE {EmptyRow, [EmptyRow EXCEPT ![c.completion] = c.n]}
    IN anchored \cup completed \cup unanchored

EvalRows == UNION { RowsFor(GenericChecks[i]) : i \in 1..Len(GenericChecks) }

\* the dates around every deadline
EvalDates ==
    UNION { { DeadlineOf(GenericChecks[i], a) + k : k \in {-1, 0, 1} } :
               i \in 1..Len(GenericChecks), a \in AnchorDates }

Evaluator(name, r, today_) ==
    CASE name = "closed125days" -> evaluate_closed_row(r, today_)
      [] name = "closed90Days" -> evaluate_order_closed_row(r, today_)
      [] name = "decision45days" -> evaluate_decision_date_row(r, today_)
      [] name = "decisionReceipt3days" -> evaluate_decision_receipt_row(r, today_)
      [] name = "decisionTransfer1day" -> evaluate_decision_transfer_row(r, today_)
      [] name = "consideration60days" -> evaluate_under_consideration_60days_row(r, today_)
      [] name = "firstStatusChanged14days" -> evaluate_first_status_changed_row(r, today_)
      [] name = "nextHearing3days" -> evaluate_next_hearing_present_row(r, today_)

InitEval ==
    /\ IdleBuild /\ IdleTasks /\ IdleCond /\ IdleRoute /\ IdleLoad
    /\ evCheck = "" /\ evResult = Res(<<>>, FALSE)
    /\ evRow \in EvalRows
    /\ evToday \in EvalDates

\* one evaluator is called on the row
Evaluate ==
    /\ \E name \in GenericCheckNames :
          /\ evCheck' = name
          /\ evResult' = Evaluator(name, evRow, evToday)
    /\ UNCHANGED <<evRow, evToday>>
    /\ UNCHANGED <<buildVars, taskVars, condVars, routeVars, loadVars>>

NextEval == Evaluate

SpecEval == InitEval /\ [][NextEval]_vars

\* the reference shape of a deadline check
ShapeAnchor(c, r) ==
    IF c.filing
    THEN (IF r.FIRST_LAWSUIT_FILING_DATE # NaT THEN r.FIRST_LAWSUIT_FILING_DATE
          ELSE IF r.LAWSUIT_FILING_DATE # NaT THEN r.LAWSUIT_FILING_DATE
          ELSE r.LAST_REQUEST_DATE_IN_UP)
    ELSE r[c.anchor]

ShapeCompletion(c, r) == IF c.completion = "" THEN NaT ELSE r[c.completion]

ReferenceShape(c, r, t) ==
    LET A == ShapeAnchor(c, r)
        K == ShapeCompletion(c, r)
        D == DeadlineOf(c, A)
    IN IF A = NaT THEN [status |-> Str("no_data"), is_completed |-> FALSE]
       ELSE IF K # NaT
            THEN [status |-> IF K <= D THEN Str("timely") ELSE Str("overdue"),
                  is_completed |-> TRUE]
            ELSE [status |-> IF t > D THEN Str("overdue") ELSE Str("timely"),
                  is_completed |-> FALSE]

\* C5: each generic deadline check equals the reference shape: anchor absent ->
\* (no_data, false); completion date present -> (timely iff completion <= anchor+N,
\* true) whatever today is; otherwise (overdue iff today > anchor+N, false).
C5_DeadlineShape ==
    \A i \in 1..Len(GenericChecks) :
        evCheck = GenericChecks[i].name =>
            evResult = ReferenceShape(GenericChecks[i], evRow, evToday)

C5_Witness ==
    /\ evCheck = "closed125days"
    /\ evRow.LAWSUIT_FILING_DATE = 1 /\ evRow.FIRST_LAWSUIT_FILING_DATE = NaT
    /\ evRow.CASE_CLOSING_DATE = NaT
    /\ evToday = 127
    /\ evResult = [status |-> OVERDUE, is_completed |-> FALSE]

-----------------------------------------------------------------------------
(* task_analyzer.py: TaskAnalyzer *)

\* a task_config of TASK_MAPPINGS with "conditions": the position of the check
\* and the expected (completion, status) of that check
IndexTask(name, index, completion, status) ==
    [failed_check_name |-> name, has_special |-> FALSE, index |-> index,
     conditions |-> <<Str(completion), Str(status)>>,
     special_conditions |-> [column |-> "", value |-> ""]]

\* a task_config with "special_conditions" {"column": ..., "value": ...}
SpecialTask(name, column, value) ==
    [failed_check_name |-> name, has_special |-> TRUE, index |-> 0,
     conditions |-> <<>>,
     special_conditions |-> [column |-> column, value |-> value]]

\* a task_config with the given "special_conditions" dict
DictTask(name, special_conditions) ==
    [failed_check_name |-> name, has_special |-> TRUE, index |-> 0,
     conditions |-> <<>>,
     special_conditions |-> special_conditions]

\* CHECK_DISPLAY_NAMES.get(failed_check_name, failed_check_name)
CHECK_DISPLAY_NAMES ==
    [n \in {"nextHearing3days", "consideration60days", "decision45days"} |->
        CASE n = "nextHearing3days" -> "Next hearing within 3 days"
          [] n = "consideration60days" -> "Consideration within 60 days"
          [] n = "decision45days" -> "Decision within 45 days"]

_get_failed_check_display_name(failed_check_name) ==
    IF failed_check_name \in DOMAIN CHECK_DISPLAY_NAMES
    THEN CHECK_DISPLAY_NAMES[failed_check_name] ELSE failed_check_name

\* the decimal digits of n, most significant first
RECURSIVE Digits(_)
Digits(n) == IF n < 10 THEN <<n>> ELSE Append(Digits(n \div 10), n % 10)

\* f"{n:07d}": padded with zeros to seven digits, longer when n needs more
Format07d(n) ==
    LET d == Digits(n)
    IN IF Len(d) >= 7 THEN d ELSE [i \in 1..(7 - Len(d)) |-> 0] \o d

\* _generate_task_code leaving the counter as it is
_generate_task_code_without_increment(counter) ==
    [task_code |-> [prefix |-> "TASK_", digits |-> Format07d(counter)],
     counter |-> counter]

\* _generate_task_code: the code of the current counter; the caller's counter
\* advances by one
_generate_task_code(counter) ==
    [task_code |-> [prefix |-> "TASK_", digits |-> Format07d(counter)],
     counter |-> counter + 1]

\* the column names _check_special_conditions looks the status and the transfer
\* date up under, in the order it tries them (the first of each list is the
\* Russian header of the report)
STATUS_COLUMNS == <<"Status (report header)", "STATUS", "status", "CASE_STATUS">>
TRANSFER_DATE_COLUMNS ==
    <<"Actual transfer date (report header)", "TRANSFER_DATE", "transfer_date">>

\* the value of the first of the columns the row has, None (NaN) without any
first_present(r, names) ==
    IF \E i \in 1..Len(names) : names[i] \in DOMAIN r.columns
    THEN r.columns[names[CHOOSE i \in 1..Len(names) :
                            /\ names[i] \in DOMAIN r.columns
                            /\ \A j \in 1..(i-1) : names[j] \notin DOMAIN r.columns]]
    ELSE NaN

\* the method of protection names the order production
ORDER_PRODUCTION == "Order production"

\* _check_special_conditions reporting a dict of no supported kind as a match
_check_special_conditions_unknown_fires(r, special_conditions) ==
    LET present == DOMAIN special_conditions
    IN IF "column" \in present /\ "value" \in present
       THEN /\ special_conditions.column \in DOMAIN r.columns
            /\ r.columns[special_conditions.column] # NaN
            /\ r.columns[special_conditions.column] = special_conditions.value
       ELSE IF "status" \in present /\ "has_transfer_date" \in present
       THEN LET current_status == first_present(r, STATUS_COLUMNS)
                has_date == \E i \in 1..Len(TRANSFER_DATE_COLUMNS) :
                               /\ TRANSFER_DATE_COLUMNS[i] \in DOMAIN r.columns
                               /\ r.columns[TRANSFER_DATE_COLUMNS[i]] # NaN
            IN IF current_status = NaN \/ current_status # special_conditions.status
               THEN FALSE
               ELSE has_date = special_conditions.has_transfer_date
       ELSE IF "check_type" \in present
       THEN /\ special_conditions.check_type = "court_order_delivery"
            /\ "METHOD_OF_PROTECTION" \in DOMAIN r.columns
            /\ r.columns["METHOD_OF_PROTECTION"] = ORDER_PRODUCTION
       ELSE TRUE

\* _check_special_conditions: {"column", "value"} holds when the column exists in
\* the row, is not NaN and equals the expected value; {"status",
\* "has_transfer_date"} when the status equals the expected one and a transfer
\* date is there or not as asked; {"check_type"} when the type is
\* court_order_delivery and the case is of the order production; a dict of no
\* such kind is reported and gives False
_check_special_conditions(r, special_conditions) ==
    LET present == DOMAIN special_conditions
    IN IF "column" \in present /\ "value" \in present
       THEN /\ special_conditions.column \in DOMAIN r.columns
            /\ r.columns[special_conditions.column] # NaN
            /\ r.columns[special_conditions.column] = special_conditions.value
       ELSE IF "status" \in present /\ "has_transfer_date" \in present
       THEN LET current_status == first_present(r, STATUS_COLUMNS)
                has_date == \E i \in 1..Len(TRANSFER_DATE_COLUMNS) :
                               /\ TRANSFER_DATE_COLUMNS[i] \in DOMAIN r.columns
                               /\ r.columns[TRANSFER_DATE_COLUMNS[i]] # NaN
            IN IF current_status = NaN \/ current_status # special_conditions.status
               THEN FALSE
               ELSE has_date = special_conditions.has_transfer_date
       ELSE IF "check_type" \in present
       THEN /\ special_conditions.check_type = "court_order_delivery"
            /\ "METHOD_OF_PROTECTION" \in DOMAIN r.columns
            /\ r.columns["METHOD_OF_PROTECTION"] = ORDER_PRODUCTION
       ELSE FALSE

\* _check_task_conditions comparing the parts as they are
_check_task_conditions_without_lower(r, task_config) ==
    IF r.status_isna THEN FALSE
    ELSE LET monitoring_parts == split(r.monitoringStatus)
             completion_parts == split(r.completionStatus)
             index == task_config.index
             conditions == task_config.conditions
         IN IF index < Len(completion_parts) /\ index < Len(monitoring_parts)
            THEN /\ completion_parts[index + 1] = conditions[1]
                 /\ monitoring_parts[index + 1] = conditions[2]
            ELSE FALSE

\* _check_task_conditions: a status that is not text (NaN) makes split raise,
\* which the except clause turns into False
_check_task_conditions(r, task_config) ==
    IF r.status_isna THEN FALSE
    ELSE LET monitoring_parts == split(r.monitoringStatus)
             completion_parts == split(r.completionStatus)
             index == task_config.index
             conditions == task_config.conditions
         IN IF index < Len(completion_parts) /\ index < Len(monitoring_parts)
            THEN /\ lower(completion_parts[index + 1]) = conditions[1]
                 /\ lower(monitoring_parts[index + 1]) = conditions[2]
            ELSE FALSE

is_failed(r, task_config) ==
    IF task_config.has_special
    THEN _check_special_conditions(r, task_config.special_conditions)
    ELSE _check_task_conditions(r, task_config)

\* _get_failed_checks_for_stage: the task_configs of the stage that fire, in
\* the order of the mapping
_get_failed_checks_for_stage(r, stage_tasks) ==
    LET F[i \in 0..Len(stage_tasks)] ==
            IF i = 0 THEN <<>>
            ELSE IF is_failed(r, stage_tasks[i])
                 THEN Append(F[i-1], [task_config |-> stage_tasks[i]])
                 ELSE F[i-1]
    IN F[Len(stage_tasks)]

\* _check_document_task_conditions
_check_document_task_conditions(r, task_config) ==
    LET is_completed == r.responseEssence = TRANSFER_CONFIRMED
        completion_status == IF ~is_completed THEN Str("false") ELSE Str("true")
        conditions == task_config.conditions
    IN /\ completion_status = conditions[1]
       /\ lower(r.monitoringStatus) = conditions[2]

\* _format_lawsuit_task / _format_order_task: the task of the FIRST failed check
_format_case_task(r, failed_checks, case_stage, counter) ==
    LET task_data == failed_checks[1].task_config
        code == _generate_task_code(counter)
    IN [task |-> [taskCode |-> code.task_code,
                  caseCode |-> r.caseCode,
                  caseStage |-> case_stage,
                  failedCheck |-> _get_failed_check_display_name(
                                      task_data.failed_check_name),
                  monitoringStatus |-> r.monitoringStatus,
                  sourceType |-> "detailed"],
        counter |-> code.counter]

_format_document_task(r, task_config, counter) ==
    LET code == _generate_task_code(counter)
    IN [task |-> [taskCode |-> code.task_code,
                  caseCode |-> r.caseCode,
                  caseStage |-> "executionDocumentReceived",
                  failedCheck |-> _get_failed_check_display_name(
                                      task_config.failed_check_name),
                  monitoringStatus |-> r.monitoringStatus,
                  sourceType |-> "documents"],
        counter |-> code.counter]

\* TASK_MAPPINGS[kind]: the stages that have an entry, and the entry of a stage
mapped_stages(mapping) == { mapping[i].stage : i \in 1..Len(mapping) }
tasks_of(mapping, stage) ==
    mapping[CHOOSE i \in 1..Len(mapping) : mapping[i].stage = stage].tasks

\* _analyze_lawsuit_tasks / _analyze_order_tasks: one task for every row whose
\* stage is in the mapping and that has failed checks
_analyze_case_tasks(enriched_rows, mapping, counter) ==
    LET F[i \in 0..Len(enriched_rows)] ==
            IF i = 0 THEN [tasks |-> <<>>, counter |-> counter]
            ELSE LET r == enriched_rows[i]
                     case_stage == r.caseStage
                     failed_checks ==
                         _get_failed_checks_for_stage(r, tasks_of(mapping, case_stage))
                     t == _format_case_task(r, failed_checks, case_stage, F[i-1].counter)
                 IN IF case_stage \in mapped_stages(mapping) /\ Len(failed_checks) > 0
                    THEN [tasks |-> Append(F[i-1].tasks, t.task), counter |-> t.counter]
                    ELSE F[i-1]
    IN F[Len(enriched_rows)]

\* the tasks of one document row: one for every task_config that fires
document_row_tasks(r, stage_tasks, counter) ==
    LET F[i \in 0..Len(stage_tasks)] ==
            IF i = 0 THEN [tasks |-> <<>>, counter |-> counter]
            ELSE LET t == _format_document_task(r, stage_tasks[i], F[i-1].counter)
                 IN IF _check_document_task_conditions(r, stage_tasks[i])
                    THEN [tasks |-> Append(F[i-1].tasks, t.task), counter |-> t.counter]
                    ELSE F[i-1]
    IN F[Len(stage_tasks)]

\* _analyze_document_tasks
_analyze_document_tasks(enriched_documents, mapping, counter) ==
    LET rows == enriched_documents.rows
        stage_tasks == tasks_of(mapping, "executionDocument")
        F[i \in 0..Len(rows)] ==
            IF i = 0 THEN [tasks |-> <<>>, counter |-> counter]
            ELSE LET d == document_row_tasks(rows[i], stage_tasks, F[i-1].counter)
                 IN [tasks |-> F[i-1].tasks \o d.tasks, counter |-> d.counter]
    IN F[Len(rows)]

\* analyze_all_tasks: the counter is reset, then the lawsuit, the order and the
\* document tasks are collected in that order
analyze_all_tasks(lawsuit_staged, order_staged, documents, mappings) ==
    LET c0 == 1
        l == IF lawsuit_staged.is_none THEN [tasks |-> <<>>, counter |-> c0]
             ELSE _analyze_case_tasks(lawsuit_staged.rows, mappings.lawsuit, c0)
        o == IF order_staged.is_none THEN [tasks |-> <<>>, counter |-> l.counter]
             ELSE _analyze_case_tasks(order_staged.rows, mappings.order, l.counter)
        d == IF documents.is_none THEN [tasks |-> <<>>, counter |-> o.counter]
             ELSE _analyze_document_tasks(documents, mappings.documents, o.counter)
    IN [all_tasks |-> l.tasks \o o.tasks \o d.tasks, counter |-> d.counter]

-----------------------------------------------------------------------------
(* Specification of analyze_all_tasks over the stored tables (SpecTasks) *)

\* the row build_production_table stores for a case on day Day0
StagedRow(ptype, r) ==
    LET stage == assign_stages(ptype, r)
        res == calculate_row_status(ptype, r, stage, Day0, Day0, NoTable)
    IN [caseCode |-> r.CASE_CODE, caseStage |-> stage,
        monitoringStatus |-> res.monitoring_status,
        completionStatus |-> res.completion_status,
        status_isna |-> FALSE,
        columns |-> [c \in {"caseStatus"} |-> r.CASE_STATUS]]

LawsuitCases ==
    { [EmptyRow EXCEPT !.CASE_CODE = "CP-CASE-0000001",
                       !.CASE_STATUS = UNDER_CONSIDERATION,
                       !.DETERMINATION_DATE = Day0 - 10,
                       !.PREVIOUS_HEARING_DATE = Day0 - 1],
      [EmptyRow EXCEPT !.CASE_CODE = "CP-CASE-0000002",
                       !.CASE_STATUS = UNDER_CONSIDERATION,
                       !.LAWSUIT_FILING_DATE = Day0 - 30],
      [EmptyRow EXCEPT !.CASE_CODE = "CP-CASE-0000003",
                       !.CASE_STATUS = DECISION_MADE,
                       !.DECISION_COURT_DATE = Day0 - 50],
      [EmptyRow EXCEPT !.CASE_CODE = "CP-CASE-0000004",
                       !.CASE_STATUS = CLOSED,
                       !.LAWSUIT_FILING_DATE = Day0 - 150] }

OrderCases ==
    { [EmptyRow EXCEPT !.CASE_CODE = "CP-CASE-0000011",
                       !.CASE_STATUS = AWAITING_COURT_RESPONSE,
                       !.LAWSUIT_FILING_DATE = Day0 - 90],
      [EmptyRow EXCEPT !.CASE_CODE = "CP-CASE-0000012",
                       !.CASE_STATUS = PREPARATION_OF_DOCUMENTS,
                       !.LAWSUIT_FILING_DATE = Day0 - 20],
      [EmptyRow EXCEPT !.CASE_CODE = "CP-CASE-0000013",
                       !.CASE_STATUS = PREPARATION_OF_DOCUMENTS,
                       !.LAWSUIT_FILING_DATE = Day0 - 3],
      [EmptyRow EXCEPT !.CASE_CODE = "CP-CASE-0000014",
                       !.CASE_STATUS = UNKNOWN_STATUS,
                       !.LAWSUIT_FILING_DATE = Day0 - 90] }

\* the tables of at most MaxRows rows, no case twice
TablesOf(rows) ==
    { Table(t) : t \in UNION { { q \in [1..n -> rows] :
                                    \A i, j \in 1..n : i # j => q[i] # q[j] } :
                               n \in 0..MaxRows } }

LawsuitStagedTables ==
    {NoTable} \cup TablesOf({ StagedRow("lawsuit", r) : r \in LawsuitCases })

OrderStagedTables ==
    {NoTable} \cup TablesOf({ StagedRow("order", r) : r \in OrderCases })

\* TASK_MAPPINGS: per kind, the stages with their task_configs
TaskMappingTables ==
    { [lawsuit |->
          << [stage |-> "underConsideration",
              tasks |-> << IndexTask("nextHearing3days", 0, "false", "overdue"),
                           IndexTask("hearingInterval2days", 1, "false", "overdue"),
                           IndexTask("consideration60days", 2, "false", "no_data") >>],
             [stage |-> "decisionMade",
              tasks |-> << IndexTask("decision45days", 0, "false", "overdue") >>] >>,
       order |->
          << [stage |-> "courtReaction",
              tasks |-> << IndexTask("courtReaction60Days", 0, "false", "overdue") >>],
             [stage |-> "firstStatusChanged",
              tasks |-> << IndexTask("firstStatus14Days", 0, "false", "overdue") >>] >>,
       documents |->
          << [stage |-> "executionDocument",
              tasks |-> << IndexTask("executionDocumentOverdue", 0, "false", "overdue"),
                           IndexTask("executionDocumentNoData", 0, "true", "no_data") >>] >>],
      [lawsuit |->
          << [stage |-> "underConsideration",
              tasks |-> << IndexTask("consideration60days", 2, "false", "timely"),
                           IndexTask("fourthCheck", 3, "false", "overdue") >>],
             [stage |-> "closed",
              tasks |-> << DictTask("unknownKind", [priority |-> "high"]),
                           SpecialTask("closedCase", "caseStatus", CLOSED),
                           IndexTask("closed125days", 0, "false", "overdue") >>] >>,
       order |->
          << [stage |-> "firstStatusChanged",
              tasks |-> << DictTask("columnOnly", [column |-> "caseStatus"]),
                           DictTask("statusKind", [status |-> PREPARATION_OF_DOCUMENTS,
                                                   has_transfer_date |-> FALSE]),
                           DictTask("deliveryKind",
                                    [check_type |-> "court_order_delivery"]),
                           SpecialTask("missingColumn", "court", "Court"),
                           IndexTask("firstStatus14Days", 0, "false", "timely") >>] >>,
       documents |->
          << [stage |-> "executionDocument",
              tasks |-> << IndexTask("executionDocumentOverdue", 0, "false", "overdue") >>] >>],
      [lawsuit |-> <<>>,
       order |-> <<>>,
       documents |-> << [stage |-> "executionDocument", tasks |-> <<>>] >>] }

InitTasks ==
    /\ production_type = "lawsuit" /\ row = EmptyRow /\ clock = Day0
    /\ today = NaT /\ wall = NaT /\ docs_read = NoTable
    /\ caseStage = NotBuilt /\ monitoringStatus = <<>> /\ completionStatus = <<>>
    /\ IdleEval /\ IdleCond /\ IdleRoute /\ IdleLoad
    /\ documents_processed \in {NoTable} \cup DocTables
    /\ \E l \in LawsuitStagedTables, o \in OrderStagedTables :
          staged = [lawsuit |-> l, order |-> o, tasks |-> NoTable]
    /\ task_mappings \in TaskMappingTables
    /\ task_counter = 1
    /\ tasks = <<>>
    /\ runs = 0
    /\ callers = <<>>

\* one call of task_analyzer.analyze_all_tasks()
AnalyzeAllTasks ==
    /\ runs < MaxRuns
    /\ LET res == analyze_all_tasks(staged.lawsuit, staged.order,
                                    documents_processed, task_mappings)
       IN /\ task_counter' = res.counter
          /\ tasks' = res.all_tasks
          /\ staged' = IF Len(res.all_tasks) > 0
                       THEN [staged EXCEPT !.tasks = Table(res.all_tasks)]
                       ELSE staged
    /\ runs' = runs + 1
    /\ UNCHANGED <<task_mappings, callers>>
    /\ UNCHANGED <<buildVars, evalVars, condVars, routeVars, loadVars>>

NextTasks == AnalyzeAllTasks

SpecTasks == InitTasks /\ [][NextTasks]_vars

\* the task_configs registered for a row's stage, none when the stage has no entry
RegisteredTasks(mapping, r) ==
    IF r.caseStage \in mapped_stages(mapping) THEN tasks_of(mapping, r.caseStage)
    ELSE <<>>

FiringSpecs(mapping, r) ==
    { i \in 1..Len(RegisteredTasks(mapping, r)) :
         is_failed(r, RegisteredTasks(mapping, r)[i]) }

EmittedFor(r) ==
    { k \in 1..Len(tasks) :
         tasks[k].caseCode = r.caseCode /\ tasks[k].sourceType = "detailed" }

TaskPerFiringSpec(mapping, table) ==
    \A n \in 1..Len(table.rows) :
        LET r == table.rows[n]
        IN /\ Cardinality(EmittedFor(r)) = Cardinality(FiringSpecs(mapping, r))
           /\ { tasks[k].failedCheck : k \in EmittedFor(r) } =
              { _get_failed_check_display_name(
                    RegisteredTasks(mapping, r)[i].failed_check_name) :
                    i \in FiringSpecs(mapping, r) }

\* C7: for every case the number of tasks emitted equals the number of TaskSpecs
\* registered under (productionType, stage) that fire, and the failedCheck names
\* emitted are the names of the firing TaskSpecs.
C7_TaskPerFiringSpec ==
    runs > 0 =>
        /\ TaskPerFiringSpec(task_mappings.lawsuit, staged.lawsuit)
        /\ TaskPerFiringSpec(task_mappings.order, staged.order)

\* the number a sequence of decimal digits denotes
RECURSIVE DigitsValue(_)
DigitsValue(d) ==
    IF Len(d) = 0 THEN 0 ELSE 10 * DigitsValue(SubSeq(d, 1, Len(d) - 1)) + d[Len(d)]

\* lawsuit tasks come first, then order tasks, then document tasks
EmissionRank(t) ==
    IF t.sourceType = "documents" THEN 3
    ELSE IF \E n \in 1..Len(staged.lawsuit.rows) :
               staged.lawsuit.rows[n].caseCode = t.caseCode
         THEN 1 ELSE 2

\* C9: the tasks returned by a run carry the codes TASK_0000001, TASK_0000002,
\* ... in emission order (lawsuit, order, documents), pairwise distinct and
\* strictly increasing; every run starts again at TASK_0000001.
C9_CodesOfARun ==
    runs > 0 =>
        /\ \A k \in 1..Len(tasks) :
              /\ tasks[k].taskCode.prefix = "TASK_"
              /\ Len(tasks[k].taskCode.digits) = 7
              /\ DigitsValue(tasks[k].taskCode.digits) = k
        /\ \A i, j \in 1..Len(tasks) :
              i < j => /\ tasks[i].taskCode # tasks[j].taskCode
                       /\ EmissionRank(tasks[i]) <= EmissionRank(tasks[j])
        /\ task_counter = Len(tasks) + 1

C9_Witness ==
    /\ runs = 2
    /\ Len(tasks) >= 3
    /\ \A rank \in 1..3 : \E k \in 1..Len(tasks) : EmissionRank(tasks[k]) = rank
    /\ tasks[1].taskCode.digits = <<0, 0, 0, 0, 0, 0, 1>>

StagedRows == staged.lawsuit.rows \o staged.order.rows

\* C26: a case classified outside_stage_filters has monitoringStatus "no_data"
\* and completionStatus "false" in the staged table, whatever its dates are, and
\* a run of the task analysis emits no task for it.
C26_OutsideStagesExcluded ==
    \A n \in 1..Len(StagedRows) :
        LET r == StagedRows[n]
        IN r.caseStage = "outside_stage_filters" =>
              /\ r.monitoringStatus = NO_DATA
              /\ r.completionStatus = Str("false")
              /\ runs > 0 => EmittedFor(r) = {}

\* an order case of an unknown status, filed 90 days ago, is in the table next to
\* a case that got a task
C26_Witness ==
    /\ runs > 0
    /\ Len(tasks) > 0
    /\ \E n \in 1..Len(staged.order.rows) :
          /\ staged.order.rows[n].caseCode = "CP-CASE-0000014"
          /\ staged.order.rows[n].caseStage = "outside_stage_filters"
          /\ EmittedFor(staged.order.rows[n]) = {}

\* a special_conditions dict of none of the three supported kinds
UnknownKind(special_conditions) ==
    LET present == DOMAIN special_conditions
    IN /\ ~("column" \in present /\ "value" \in present)
       /\ ~("status" \in present /\ "has_transfer_date" \in present)
       /\ "check_type" \notin present

UnknownSpecs(mapping, r) ==
    { i \in 1..Len(RegisteredTasks(mapping, r)) :
         /\ RegisteredTasks(mapping, r)[i].has_special
         /\ UnknownKind(RegisteredTasks(mapping, r)[i].special_conditions) }

\* the TaskSpecs with "conditions" whose indexed parts are the expected ones
IndexSpecsMet(mapping, r) ==
    { i \in 1..Len(RegisteredTasks(mapping, r)) :
         LET c == RegisteredTasks(mapping, r)[i]
             m == split(r.monitoringStatus)
             d == split(r.completionStatus)
         IN /\ ~c.has_special /\ ~r.status_isna
            /\ c.index < Len(m) /\ c.index < Len(d)
            /\ lower(d[c.index + 1]) = c.conditions[1]
            /\ lower(m[c.index + 1]) = c.conditions[2] }

UnknownNeverFires(mapping, table) ==
    \A n \in 1..Len(table.rows) :
        LET r == table.rows[n]
        IN /\ \A k \in EmittedFor(r), i \in UnknownSpecs(mapping, r) :
                 tasks[k].failedCheck # RegisteredTasks(mapping, r)[i].failed_check_name
           /\ IndexSpecsMet(mapping, r) # {} => EmittedFor(r) # {}

\* C21: a TaskSpec whose special_conditions is of no supported kind fires for no
\* row - no task carries its name - and the run ends with its tasks; a TaskSpec
\* registered after it in the same stage whose condition is met still gives the
\* case its task.
C21_UnknownKindNeverFires ==
    runs > 0 =>
        /\ UnknownNeverFires(task_mappings.lawsuit, staged.lawsuit)
        /\ UnknownNeverFires(task_mappings.order, staged.order)

\* the closed stage has a TaskSpec of an unknown kind first, and the closed case
\* got the task of the TaskSpec after it
C21_Witness ==
    /\ runs > 0
    /\ \E n \in 1..Len(staged.lawsuit.rows) :
          LET r == staged.lawsuit.rows[n]
          IN /\ r.caseStage = "closed"
             /\ 1 \in UnknownSpecs(task_mappings.lawsuit, r)
             /\ \E k \in EmittedFor(r) : tasks[k].failedCheck = "closedCase"

-----------------------------------------------------------------------------
(* analyze_all_tasks called from two threads on the task_analyzer singleton
   (SpecThreads): the steps of a call are the statements that read or write
   TaskAnalyzer._task_counter *)

Threads == {1, 2}

IdleCall ==
    [pc |-> "idle", pending |-> <<>>, all_tasks |-> <<>>,
     task_code |-> [prefix |-> "TASK_", digits |-> <<>>], loaded |-> 0]

InitThreads ==
    /\ production_type = "lawsuit" /\ row = EmptyRow /\ clock = Day0
    /\ today = NaT /\ wall = NaT /\ docs_read = NoTable
    /\ caseStage = NotBuilt /\ monitoringStatus = <<>> /\ completionStatus = <<>>
    /\ IdleEval /\ IdleCond /\ IdleRoute /\ IdleLoad
    /\ documents_processed = NoTable
    /\ \E l \in LawsuitStagedTables :
          staged = [lawsuit |-> l, order |-> NoTable, tasks |-> NoTable]
    /\ task_mappings \in TaskMappingTables
    /\ task_counter = 1
    /\ tasks = <<>>
    /\ runs = 0
    /\ callers = [t \in Threads |-> IdleCall]

\* analyze_all_tasks is entered: self._task_counter = 1, the tables are read;
\* pending are the tasks the call will format, in emission order
CallStart(t) ==
    /\ callers[t].pc = "idle"
    /\ task_counter' = 1
    /\ callers' = [callers EXCEPT ![t] =
          [@ EXCEPT !.pc = IF Len(analyze_all_tasks(staged.lawsuit, staged.order,
                                   documents_processed, task_mappings).all_tasks) > 0
                           THEN "format" ELSE "return",
                    !.pending = analyze_all_tasks(staged.lawsuit, staged.order,
                                   documents_processed, task_mappings).all_tasks]]
    /\ UNCHANGED <<staged, task_mappings, tasks, runs>>
    /\ UNCHANGED <<buildVars, evalVars, condVars, routeVars, loadVars>>

\* _generate_task_code: task_code = f"TASK_{self._task_counter:07d}"
GenerateRead(t) ==
    /\ callers[t].pc = "format"
    /\ callers' = [callers EXCEPT ![t] =
          [@ EXCEPT !.pc = "load",
                    !.task_code = [prefix |-> "TASK_", digits |-> Format07d(task_counter)]]]
    /\ UNCHANGED <<task_counter, staged, task_mappings, tasks, runs>>
    /\ UNCHANGED <<buildVars, evalVars, condVars, routeVars, loadVars>>

\* self._task_counter += 1: the attribute is loaded ...
GenerateLoad(t) ==
    /\ callers[t].pc = "load"
    /\ callers' = [callers EXCEPT ![t] = [@ EXCEPT !.pc = "store", !.loaded = task_counter]]
    /\ UNCHANGED <<task_counter, staged, task_mappings, tasks, runs>>
    /\ UNCHANGED <<buildVars, evalVars, condVars, routeVars, loadVars>>

\* ... and stored incremented; the formatted task is appended to the list
GenerateStore(t) ==
    /\ callers[t].pc = "store"
    /\ task_counter' = callers[t].loaded + 1
    /\ callers' = [callers EXCEPT ![t] =
          [@ EXCEPT !.pc = IF Len(callers[t].pending) > 1 THEN "format" ELSE "return",
                    !.pending = Tail(@),
                    !.all_tasks = Append(@, [callers[t].pending[1] EXCEPT
                                                !.taskCode = callers[t].task_code])]]
    /\ UNCHANGED <<staged, task_mappings, tasks, runs>>
    /\ UNCHANGED <<buildVars, evalVars, condVars, routeVars, loadVars>>

\* the tasks are stored when there are any, self.tasks = all_tasks; return all_tasks
CallReturn(t) ==
    /\ callers[t].pc = "return"
    /\ callers' = [callers EXCEPT ![t] = [@ EXCEPT !.pc = "returned"]]
    /\ tasks' = callers[t].all_tasks
    /\ staged' = IF Len(callers[t].all_tasks) > 0
                 THEN [staged EXCEPT !.tasks = Table(callers[t].all_tasks)]
                 ELSE staged
    /\ runs' = runs + 1
    /\ UNCHANGED <<task_counter, task_mappings>>
    /\ UNCHANGED <<buildVars, evalVars, condVars, routeVars, loadVars>>

NextThreads ==
    \E t \in Threads :
        \/ CallStart(t) \/ GenerateRead(t) \/ GenerateLoad(t)
        \/ GenerateStore(t) \/ CallReturn(t)

SpecThreads == InitThreads /\ [][NextThreads]_vars

-----------------------------------------------------------------------------
(* _check_task_conditions applied to one row and one task_config (SpecCond) *)

StatusWords == {"timely", "overdue", "Overdue", "NO_DATA"}
CompletionWords == {"false", "False", "true"}

\* the strings of 1..MaxParts words joined by ";"
Composite(words) ==
    UNION { { join([i \in 1..n |-> Str(q[i])]) : q \in [1..n -> words] } :
               n \in 1..MaxParts }

CondRow(m, c, isna) ==
    [caseCode |-> "CP-CASE-0000001", caseStage |-> "underConsideration",
     monitoringStatus |-> m, completionStatus |-> c, status_isna |-> isna,
     columns |-> [col \in {"caseStatus"} |-> UNDER_CONSIDERATION]]

CondRows ==
    { CondRow(m, c, FALSE) : m \in Composite(StatusWords), c \in Composite(CompletionWords) }
    \cup { CondRow(<<>>, <<>>, FALSE), CondRow(<<>>, <<>>, TRUE) }

CondConfigs ==
    { IndexTask("check", i, c, st) :
         i \in 0..MaxParts, c \in {"false", "true"}, st \in {"overdue", "no_data"} }

InitCond ==
    /\ IdleBuild /\ IdleEval /\ IdleTasks /\ IdleRoute /\ IdleLoad
    /\ condRow \in CondRows
    /\ condConfig \in CondConfigs
    /\ condResult = "<not called>"

\* one call of _check_task_conditions(row, task_config)
CheckTaskConditions ==
    /\ condResult' = IF _check_task_conditions(condRow, condConfig)
                     THEN "True" ELSE "False"
    /\ UNCHANGED <<condRow, condConfig>>
    /\ UNCHANGED <<buildVars, evalVars, taskVars, routeVars, loadVars>>

NextCond == CheckTaskConditions

SpecCond == InitCond /\ [][NextCond]_vars

\* the positions of the separators of a string, and its k-th part (from 0)
SepPositions(s) == { i \in 1..Len(s) : s[i] = SEP }
PartCount(s) == Cardinality(SepPositions(s)) + 1
PartAt(s, k) ==
    LET from == IF k = 0 THEN 0
                ELSE CHOOSE i \in SepPositions(s) :
                        Cardinality({j \in SepPositions(s) : j < i}) = k - 1
        upto == IF k = PartCount(s) - 1 THEN Len(s) + 1
                ELSE CHOOSE i \in SepPositions(s) :
                        Cardinality({j \in SepPositions(s) : j < i}) = k
    IN SubSeq(s, from + 1, upto - 1)

EqualsIgnoreCase(a, b) ==
    /\ Len(a) = Len(b)
    /\ \A i \in 1..Len(a) : LowerAtom(a[i]) = LowerAtom(b[i])

C8_WitnessOutOfRange ==
    /\ condResult = "False"
    /\ condConfig.index = 1
    /\ condRow.monitoringStatus = <<"overdue", ";", "overdue">>
    /\ condRow.completionStatus = <<"false">>

-----------------------------------------------------------------------------
(* Specification of the data manager's processed tables and the routes that
   write and read them (SpecStore) *)

\* the row build_production_table stores for a case: the stage, the statuses and
\* the renamed columns
staged_row(ptype, r, today_, documents) ==
    LET stage == assign_stages(ptype, r)
        res == calculate_row_status(ptype, r, stage, today_, today_, documents)
    IN [caseCode |-> r.CASE_CODE, caseStage |-> stage,
        monitoringStatus |-> res.monitoring_status,
        completionStatus |-> res.completion_status,
        status_isna |-> FALSE,
        columns |-> [c \in {"caseStatus"} |-> r.CASE_STATUS]]

\* build_production_table(df, production_type): an unknown production type
\* raises ValueError before anything is stored; otherwise the staged table is
\* stored under "<production_type>_staged"
\* build_production_table swallowing the error of an unknown production type
build_production_table_unknown_type_swallowed(df, ptype, today_, documents) ==
    IF ptype \notin ProductionTypes
    THEN [raised |-> NoException, stored |-> FALSE, staged_df |-> NoTable]
    ELSE [raised |-> NoException, stored |-> TRUE,
          staged_df |-> Table([i \in 1..Len(df) |-> staged_row(ptype, df[i], today_,
                                                               documents)])]

build_production_table(df, ptype, today_, documents) ==
    IF ptype \notin ProductionTypes
    THEN [raised |-> "ValueError", stored |-> FALSE, staged_df |-> NoTable]
    ELSE [raised |-> NoException, stored |-> TRUE,
          staged_df |-> Table([i \in 1..Len(df) |-> staged_row(ptype, df[i], today_,
                                                               documents)])]

\* the filtered reports a build is called with: no case or one case
FramesOf(ptype) ==
    LET cases == IF ptype = "order" THEN OrderCases ELSE LawsuitCases
    IN {<<>>} \cup { <<r>> : r \in cases }

\* the production types a caller may pass, one of them unknown to the function
CalledTypes == ProductionTypes \cup {"simplified"}

\* the results of build_production_table on day Day0, by production type,
\* documents table and report (the date does not change in this specification)
BuildResults ==
    [ptype \in CalledTypes |->
        [documents \in {NoTable} \cup DocTables |->
            [df \in FramesOf(ptype) |->
                build_production_table(df, ptype, Day0, documents)]]]

\* DataManager.__init__: every processed table is None, no report is loaded
InitStore ==
    /\ production_type = "lawsuit" /\ row = EmptyRow /\ clock = Day0
    /\ today = NaT /\ wall = NaT /\ docs_read = NoTable
    /\ caseStage = NotBuilt /\ monitoringStatus = <<>> /\ completionStatus = <<>>
    /\ IdleEval /\ IdleCond
    /\ documents_processed = NoTable
    /\ staged = [lawsuit |-> NoTable, order |-> NoTable, tasks |-> NoTable]
    /\ task_mappings \in TaskMappingTables
    /\ task_counter = 1
    /\ tasks = <<>>
    /\ runs = 0
    /\ callers = <<>>
    /\ response = <<>> /\ raised = NoException /\ loaded = FALSE /\ requests = 0
    /\ IdleLoad

\* load_detailed_report and load_documents_report: both cleaned reports are set
LoadReports ==
    /\ ~loaded
    /\ loaded' = TRUE
    /\ UNCHANGED <<response, raised, requests>>
    /\ UNCHANGED <<buildVars, evalVars, taskVars, condVars, loadVars>>

\* a call of build_production_table(df, production_type)
BuildAndStore ==
    /\ clock = Day0
    /\ \E ptype \in CalledTypes :
       \E df \in FramesOf(ptype) :
          LET res == BuildResults[ptype][documents_processed][df]
          IN /\ production_type' = ptype
             /\ raised' = res.raised
             /\ staged' = IF res.stored
                          THEN [staged EXCEPT ![ptype] = res.staged_df]
                          ELSE staged
    /\ UNCHANGED <<row, clock, documents_processed, today, wall,
                   docs_read, caseStage, monitoringStatus, completionStatus>>
    /\ UNCHANGED <<task_counter, task_mappings, tasks, runs, callers>>
    /\ UNCHANGED <<response, loaded, requests>>
    /\ UNCHANGED <<evalVars, condVars, loadVars>>

\* GET /api/tasks/calculate without an executor filter: a request before both
\* reports are loaded is answered with an error and changes nothing; a stored,
\* non-empty "tasks" table is returned as it is; otherwise analyze_all_tasks runs
CalculateTasks ==
    /\ loaded
    /\ requests < MaxRequests
    /\ requests' = requests + 1
    /\ LET existing_tasks == staged.tasks
       IN IF ~existing_tasks.is_none /\ Len(existing_tasks.rows) > 0
          THEN /\ response' = existing_tasks.rows
               /\ UNCHANGED <<task_counter, staged, tasks, runs>>
          ELSE /\ runs < MaxRuns
               /\ LET res == analyze_all_tasks(staged.lawsuit, staged.order,
                                               documents_processed, task_mappings)
                  IN /\ task_counter' = res.counter
                     /\ tasks' = res.all_tasks
                     /\ staged' = IF Len(res.all_tasks) > 0
                                  THEN [staged EXCEPT !.tasks = Table(res.all_tasks)]
                                  ELSE staged
                     /\ response' = res.all_tasks
               /\ runs' = runs + 1
    /\ UNCHANGED <<task_mappings, callers>>
    /\ UNCHANGED <<raised, loaded>>
    /\ UNCHANGED <<buildVars, evalVars, condVars, loadVars>>

\* POST /reset-analysis: clear_processed_data("all"), then clear_data("all")
ResetAnalysis ==
    /\ staged' = [lawsuit |-> NoTable, order |-> NoTable, tasks |-> NoTable]
    /\ documents_processed' = NoTable
    /\ loaded' = FALSE
    /\ UNCHANGED <<production_type, row, clock, today, wall, docs_read,
                   caseStage, monitoringStatus, completionStatus>>
    /\ UNCHANGED <<task_counter, task_mappings, tasks, runs, callers>>
    /\ UNCHANGED <<response, raised, requests>>
    /\ UNCHANGED <<evalVars, condVars, loadVars>>

NextStore ==
    LoadReports \/ BuildAndStore \/ StoreDocuments \/ CalculateTasks \/ ResetAnalysis

SpecStore == InitStore /\ [][NextStore]_vars

\* the tasks of the tables the data manager holds (a task calculation request
\* leaves the case and document tables as they are)
CurrentTasks ==
    analyze_all_tasks(staged.lawsuit, staged.order, documents_processed,
                      task_mappings).all_tasks

C20_UnknownTypeFailsHard ==
    [][ (production_type' # production_type /\ production_type' \notin ProductionTypes)
            => /\ raised' = "ValueError"
               /\ UNCHANGED <<staged, documents_processed>> ]_vars

\* the call with the unknown type has failed while a lawsuit table built before
\* it is still stored
C20_Witness ==
    /\ production_type = "simplified" /\ raised = "ValueError"
    /\ ~staged.lawsuit.is_none /\ Len(staged.lawsuit.rows) > 0

-----------------------------------------------------------------------------
(* The hearing-interval check applied to a row (specification SpecHearing) *)

HearingDates == (Day0 - MaxSpan)..(Day0 + MaxSpan)

\* rows of a case under consideration: each hearing date absent or present
HearingRows ==
    { [EmptyRow EXCEPT !.CASE_STATUS = UNDER_CONSIDERATION,
                       !.PREVIOUS_HEARING_DATE = ph, !.NEXT_HEARING_DATE = nh] :
        ph \in {NaT} \cup HearingDates, nh \in {NaT} \cup HearingDates }

\* evToday is the date date.today() returns inside the evaluator
InitHearing ==
    /\ IdleBuild /\ IdleTasks /\ IdleCond /\ IdleRoute /\ IdleLoad
    /\ evCheck = "" /\ evResult = Res(<<>>, FALSE)
    /\ evRow \in HearingRows
    /\ evToday \in HearingDates

EvaluateHearing ==
    /\ evCheck' = "hearingInterval2days"
    /\ evResult' = evaluate_prev_to_next_hearing_row(evRow, evToday)
    /\ UNCHANGED <<evRow, evToday>>
    /\ UNCHANGED <<buildVars, taskVars, condVars, routeVars, loadVars>>

NextHearing == EvaluateHearing

SpecHearing == InitHearing /\ [][NextHearing]_vars

\* the working days after day a up to and including day b
WorkingDaysIn(a, b) == Cardinality({ x \in (a + 1)..b : is_working_day(x) })

HearingsInOrder ==
    /\ evCheck = "hearingInterval2days"
    /\ evRow.PREVIOUS_HEARING_DATE # NaT /\ evRow.NEXT_HEARING_DATE # NaT
    /\ evRow.NEXT_HEARING_DATE >= evRow.PREVIOUS_HEARING_DATE

\* C12: with both hearing dates present and next >= previous the hearing-interval
\* check is timely iff at most 2 working days lie between previous and next, and
\* overdue otherwise, whatever today is; a gap over a weekend that counts 2
\* working days is timely.
C12_HearingInterval ==
    HearingsInOrder =>
        /\ evResult.status =
               IF WorkingDaysIn(evRow.PREVIOUS_HEARING_DATE, evRow.NEXT_HEARING_DATE) <= 2
               THEN TIMELY ELSE OVERDUE
        /\ \A t \in HearingDates :
               evaluate_prev_to_next_hearing_row(evRow, t) = evResult

\* Friday to Tuesday: four calendar days, two working days, evaluated after both
C12_Witness ==
    /\ HearingsInOrder
    /\ evRow.PREVIOUS_HEARING_DATE = Day0 /\ Day0 % 7 = 4
    /\ evRow.NEXT_HEARING_DATE = Day0 + 4
    /\ ~is_working_day(Day0 + 1) /\ ~is_working_day(Day0 + 2)
    /\ evToday = Day0 + 4
    /\ evResult = Res(TIMELY, TRUE)

HearingsOutOfOrder ==
    /\ evCheck = "hearingInterval2days"
    /\ evRow.PREVIOUS_HEARING_DATE # NaT /\ evRow.NEXT_HEARING_DATE # NaT
    /\ evRow.NEXT_HEARING_DATE < evRow.PREVIOUS_HEARING_DATE

\* C13: with both hearing dates present and next < previous the status is the
\* status of the same record without the next hearing date: overdue iff today is
\* after the second working day after the previous hearing, timely otherwise
\* (today being the date the check reads when it runs).
C13_OutOfOrderAsAbsent ==
    HearingsOutOfOrder =>
        /\ evResult.status =
               evaluate_prev_to_next_hearing_row(
                   [evRow EXCEPT !.NEXT_HEARING_DATE = NaT], evToday).status
        /\ evResult.status =
               IF evToday > WorkingDeadline(evRow.PREVIOUS_HEARING_DATE, 2)
               THEN OVERDUE ELSE TIMELY

\* previous hearing on day Day0 - 3, a holiday on Day0 - 2: the deadline is Day0
C13_Witness ==
    /\ HearingsOutOfOrder
    /\ evRow.PREVIOUS_HEARING_DATE = Day0 - 3 /\ evRow.NEXT_HEARING_DATE = Day0 - 4
    /\ WorkingDeadline(Day0 - 3, 2) = Day0
    /\ evToday = Day0 + 1
    /\ evResult = Res(OVERDUE, TRUE)

\* C24: with neither the previous nor the next hearing date present the
\* hearing-interval check returns no_data, not completed.
C24_NoHearingDates ==
    (/\ evCheck = "hearingInterval2days"
     /\ evRow.PREVIOUS_HEARING_DATE = NaT /\ evRow.NEXT_HEARING_DATE = NaT) =>
        evResult = Res(NO_DATA, FALSE)

-----------------------------------------------------------------------------
(* The court-reaction check of the order production applied to a row
   (specification SpecReaction) *)

\* rows of an order case: the filing date absent or 60 days before Day0, each of
\* the four conditions met or not
ReactionRows ==
    { [EmptyRow EXCEPT !.LAWSUIT_FILING_DATE = fd, !.COURT_DETERMINATION = cd,
                       !.ACTUAL_RECEIPT_DATE = rd, !.ACTUAL_TRANSFER_DATE = td,
                       !.CASE_STATUS = st] :
        fd \in {NaT, Day0 - 60},
        cd \in {NaN, COURT_ORDER, "Refusal"},
        rd \in {NaT, Day0 - 10},
        td \in {NaT, Day0 - 9},
        st \in {NaN, CONDITIONALLY_CLOSED, AWAITING_COURT_RESPONSE} }

InitReaction ==
    /\ IdleBuild /\ IdleTasks /\ IdleCond /\ IdleRoute /\ IdleLoad
    /\ evCheck = "" /\ evResult = Res(<<>>, FALSE)
    /\ evRow \in ReactionRows
    /\ evToday \in (Day0 - 1)..(Day0 + MaxTick)

EvaluateReaction ==
    /\ evCheck' = "courtReaction60days"
    /\ evResult' = evaluate_order_court_reaction_row(evRow, evToday)
    /\ UNCHANGED <<evRow, evToday>>
    /\ UNCHANGED <<buildVars, taskVars, condVars, routeVars, loadVars>>

NextReaction == EvaluateReaction

SpecReaction == InitReaction /\ [][NextReaction]_vars

AllFourConditions(r) ==
    /\ r.COURT_DETERMINATION = COURT_ORDER
    /\ r.ACTUAL_RECEIPT_DATE # NaT
    /\ r.ACTUAL_TRANSFER_DATE # NaT
    /\ r.CASE_STATUS = CONDITIONALLY_CLOSED

\* C14: the court-reaction check of the order production is completed iff the
\* court determination is the court order, the receipt and the transfer date are
\* present and the status is conditionally closed; it is overdue iff today is
\* after filing + 60 days and not all four hold, timely otherwise; without a
\* filing date it is (no_data, false).
C14_OrderCourtReaction ==
    evCheck = "courtReaction60days" =>
        IF evRow.LAWSUIT_FILING_DATE = NaT
        THEN evResult = [status |-> Str("no_data"), is_completed |-> FALSE]
        ELSE /\ evResult.is_completed = AllFourConditions(evRow)
             /\ evResult.status =
                    IF evToday > evRow.LAWSUIT_FILING_DATE + 60
                       /\ ~AllFourConditions(evRow)
                    THEN Str("overdue") ELSE Str("timely")

\* three of the four conditions hold on the day after the deadline
C14_Witness ==
    /\ evCheck = "courtReaction60days"
    /\ evRow.LAWSUIT_FILING_DATE = Day0 - 60 /\ evToday = Day0 + 1
    /\ evRow.COURT_DETERMINATION = COURT_ORDER
    /\ evRow.ACTUAL_RECEIPT_DATE # NaT /\ evRow.ACTUAL_TRANSFER_DATE # NaT
    /\ evRow.CASE_STATUS = AWAITING_COURT_RESPONSE
    /\ evResult = Res(OVERDUE, FALSE)

-----------------------------------------------------------------------------
(* document_row_analyzer_v2.py: the record that stands for a group of document
   records (specification SpecLatest) *)

\* Series.idxmax over the rows of the mask: the first row holding the maximum
idxmax(group, mask, column) ==
    CHOOSE i \in mask :
        \A j \in mask : \/ group[j][column] < group[i][column]
                         \/ (group[j][column] = group[i][column] /\ i <= j)

\* Series.idxmin over the rows of the mask
idxmin(group, mask, column) ==
    CHOOSE i \in mask :
        \A j \in mask : \/ group[j][column] > group[i][column]
                         \/ (group[j][column] = group[i][column] /\ i <= j)

\* get_latest_document_in_group taking the earliest date
get_latest_document_in_group_earliest(group) ==
    LET transfer_not_na_mask ==
            { i \in 1..Len(group) : pd_notna(group[i].DOCUMENT_TRANSFER_DATE) }
        receipt_not_na_mask ==
            { i \in 1..Len(group) : pd_notna(group[i].DOCUMENT_RECEIPT_DATE) }
    IN IF transfer_not_na_mask # {}
       THEN group[idxmin(group, transfer_not_na_mask, "DOCUMENT_TRANSFER_DATE")]
       ELSE IF receipt_not_na_mask # {}
       THEN group[idxmin(group, receipt_not_na_mask, "DOCUMENT_RECEIPT_DATE")]
       ELSE group[1]

\* get_latest_document_in_group on a group that is not empty (groupby yields no
\* empty group) and has both date columns
get_latest_document_in_group(group) ==
    LET transfer_not_na_mask ==
            { i \in 1..Len(group) : pd_notna(group[i].DOCUMENT_TRANSFER_DATE) }
        receipt_not_na_mask ==
            { i \in 1..Len(group) : pd_notna(group[i].DOCUMENT_RECEIPT_DATE) }
    IN IF transfer_not_na_mask # {}
       THEN group[idxmax(group, transfer_not_na_mask, "DOCUMENT_TRANSFER_DATE")]
       ELSE IF receipt_not_na_mask # {}
       THEN group[idxmax(group, receipt_not_na_mask, "DOCUMENT_RECEIPT_DATE")]
       ELSE group[1]

\* the dates of a document record: absent, or one of two days
DocumentDates == {NaT, Day0 - 5, Day0}

\* the groups of the document report: records of one (case code, document type,
\* department), told apart by their request code
DocumentGroups ==
    UNION { { [i \in 1..n |-> [DOCUMENT_REQUEST_CODE |-> i,
                               DOCUMENT_TRANSFER_DATE |-> q[i][1],
                               DOCUMENT_RECEIPT_DATE |-> q[i][2]]] :
                q \in [1..n -> DocumentDates \X DocumentDates] } :
            n \in 1..MaxGroup }

InitLatest ==
    /\ IdleBuild /\ IdleTasks /\ IdleCond /\ IdleRoute /\ IdleLoad
    /\ evCheck = "" /\ evResult = Res(<<>>, FALSE)
    /\ evRow \in DocumentGroups
    /\ evToday = NaT

\* process_group: the latest document of the group is selected
ProcessGroup ==
    /\ evCheck' = "get_latest_document_in_group"
    /\ evResult' = get_latest_document_in_group(evRow)
    /\ UNCHANGED <<evRow, evToday>>
    /\ UNCHANGED <<buildVars, taskVars, condVars, routeVars, loadVars>>

NextLatest == ProcessGroup

SpecLatest == InitLatest /\ [][NextLatest]_vars

Selected == evCheck = "get_latest_document_in_group"

HasDate(column) == \E i \in 1..Len(evRow) : evRow[i][column] # NaT

\* the record is one of the group's and no record of the group has a later date
IsLatestBy(x, column) ==
    /\ \E i \in 1..Len(evRow) : evRow[i] = x
    /\ x[column] # NaT
    /\ \A i \in 1..Len(evRow) : evRow[i][column] # NaT => evRow[i][column] <= x[column]

\* C16: for a non-empty group of document records of one (caseCode,
\* documentType, department), get_latest_document_in_group returns the record
\* with the maximum non-null transfer date; if no record has a transfer date,
\* the record with the maximum non-null receipt date; if no record has either
\* date, the first record of the group.
C16_LatestDocument ==
    Selected =>
        IF HasDate("DOCUMENT_TRANSFER_DATE")
        THEN IsLatestBy(evResult, "DOCUMENT_TRANSFER_DATE")
        ELSE IF HasDate("DOCUMENT_RECEIPT_DATE")
        THEN IsLatestBy(evResult, "DOCUMENT_RECEIPT_DATE")
        ELSE evResult = evRow[1]

\* transfer dates [null, later, earlier] select the second record
C16_Witness ==
    /\ Selected
    /\ Len(evRow) = 3
    /\ evRow[1].DOCUMENT_TRANSFER_DATE = NaT
    /\ evRow[2].DOCUMENT_TRANSFER_DATE = Day0
    /\ evRow[3].DOCUMENT_TRANSFER_DATE = Day0 - 5
    /\ evRow[3].DOCUMENT_RECEIPT_DATE = Day0
    /\ evResult = evRow[2]

-----------------------------------------------------------------------------
(* terms_analyzer_v2.py: calculate_documents_term_status over the records of
   one group (specification SpecTerms) *)

UPCOMING_DEADLINE == Str("upcoming_deadline")

\* the rows of the mask, in table order
rows_of(group, mask) ==
    LET F[i \in 0..Len(group)] ==
            IF i = 0 THEN <<>>
            ELSE IF i \in mask THEN Append(F[i-1], group[i]) ELSE F[i-1]
    IN F[Len(group)]

\* the status calculate_documents_term_status gives the group made of the
\* records that have a receipt date (doc_group is not empty)
group_documents_status(doc_group, today_) ==
    LET n == Len(doc_group)
        with_transfer == { i \in 1..n : pd_notna(doc_group[i].DOCUMENT_TRANSFER_DATE) }
        without_transfer == (1..n) \ with_transfer
    IN IF with_transfer # {}
       THEN LET latest_document ==
                    doc_group[idxmax(doc_group, with_transfer, "DOCUMENT_TRANSFER_DATE")]
                receipt_date == latest_document.DOCUMENT_RECEIPT_DATE
                transfer_date == latest_document.DOCUMENT_TRANSFER_DATE
                working_days == get_working_days_between(receipt_date, transfer_date)
            IN IF working_days <= 2 THEN TIMELY ELSE OVERDUE
       ELSE LET latest_document ==
                    doc_group[idxmax(doc_group, without_transfer, "DOCUMENT_RECEIPT_DATE")]
                receipt_date == latest_document.DOCUMENT_RECEIPT_DATE
                working_days_since_receipt == get_working_days_between(receipt_date, today_)
                deadline_date == add_working_days(receipt_date, 2)
                calendar_days_until_deadline == deadline_date - today_
            IN IF working_days_since_receipt > 2 THEN OVERDUE
               ELSE IF today_ < deadline_date
                    THEN (IF calendar_days_until_deadline <= 14
                          THEN UPCOMING_DEADLINE ELSE TIMELY)
                    ELSE OVERDUE

\* calculate_documents_term_status on the records of one (case code, document
\* type, department): the column documents_status, no_data for a record
\* without a receipt date
calculate_documents_term_status(documents_df, today_) ==
    LET received == { i \in 1..Len(documents_df) :
                         pd_notna(documents_df[i].DOCUMENT_RECEIPT_DATE) }
        doc_group == rows_of(documents_df, received)
    IN [i \in 1..Len(documents_df) |->
           IF i \in received THEN group_documents_status(doc_group, today_)
           ELSE NO_DATA]

InitTerms ==
    /\ IdleBuild /\ IdleTasks /\ IdleCond /\ IdleRoute /\ IdleLoad
    /\ evCheck = "" /\ evResult = Res(<<>>, FALSE)
    /\ evRow \in DocumentGroups
    /\ evToday \in (Day0 - MaxSpan)..(Day0 + MaxSpan)

CalculateDocumentsTermStatus ==
    /\ evCheck' = "calculate_documents_term_status"
    /\ evResult' = calculate_documents_term_status(evRow, evToday)
    /\ UNCHANGED <<evRow, evToday>>
    /\ UNCHANGED <<buildVars, taskVars, condVars, routeVars, loadVars>>

NextTerms == CalculateDocumentsTermStatus

SpecTerms == InitTerms /\ [][NextTerms]_vars

\* the records of the group that have a receipt date
Received == { i \in 1..Len(evRow) : evRow[i].DOCUMENT_RECEIPT_DATE # NaT }

\* the record of the set with the latest date in the column
LatestOf(set, column) ==
    evRow[CHOOSE i \in set :
              \A j \in set : \/ evRow[j][column] < evRow[i][column]
                              \/ (evRow[j][column] = evRow[i][column] /\ i <= j)]

\* the status the group with a receipt date is to have
TermStatus ==
    LET transferred == { i \in Received : evRow[i].DOCUMENT_TRANSFER_DATE # NaT }
    IN IF transferred # {}
       THEN LET d == LatestOf(transferred, "DOCUMENT_TRANSFER_DATE")
            IN IF get_working_days_between(d.DOCUMENT_RECEIPT_DATE,
                                           d.DOCUMENT_TRANSFER_DATE) <= 2
               THEN TIMELY ELSE OVERDUE
       ELSE LET d == LatestOf(Received, "DOCUMENT_RECEIPT_DATE")
                deadline == add_working_days(d.DOCUMENT_RECEIPT_DATE, 2)
            IN IF get_working_days_between(d.DOCUMENT_RECEIPT_DATE, evToday) > 2
               THEN OVERDUE
               ELSE IF deadline - evToday <= 14 /\ evToday - deadline <= 14
                    THEN UPCOMING_DEADLINE ELSE TIMELY

\* C17: a document group with a receipt date is timely iff at most 2 working
\* days lie between receipt and transfer when a transfer date is present, else
\* overdue; without a transfer date it is overdue iff more than 2 working days
\* lie between receipt and today, otherwise upcoming_deadline when today is
\* within 14 calendar days of the deadline add_working_days(receipt, 2), and
\* timely otherwise.
C17_DocumentTermStatus ==
    evCheck = "calculate_documents_term_status" =>
        \A i \in Received : evResult[i] = TermStatus

-----------------------------------------------------------------------------
(* Claims about failures inside the evaluators (specification Spec) *)

\* the first filled filing column of the row holds text that is not a date
FilingFails(r) ==
    \/ r.FIRST_LAWSUIT_FILING_DATE = Malformed
    \/ /\ r.FIRST_LAWSUIT_FILING_DATE = NaT
       /\ \/ r.LAWSUIT_FILING_DATE = Malformed
          \/ r.LAWSUIT_FILING_DATE = NaT /\ r.LAST_REQUEST_DATE_IN_UP = Malformed

IsGeneric(name) == \E i \in 1..Len(GenericChecks) : GenericChecks[i].name = name
GenericOf(name) ==
    GenericChecks[CHOOSE i \in 1..Len(GenericChecks) : GenericChecks[i].name = name]

\* the evaluation of the check on the row comes to parse a cell that is not a date
ParseFails(name, r) ==
    IF IsGeneric(name)
    THEN LET c == GenericOf(name)
         IN IF c.filing
            THEN FilingFails(r)
                 \/ (ShapeAnchor(c, r) # NaT /\ ShapeCompletion(c, r) = Malformed)
            ELSE \/ r[c.anchor] = Malformed
                 \/ (r[c.anchor] # NaT /\ ShapeCompletion(c, r) = Malformed)
    ELSE IF name = "hearingInterval2days"
    THEN r.PREVIOUS_HEARING_DATE = Malformed \/ r.NEXT_HEARING_DATE = Malformed
    ELSE IF name = "courtReaction7days"
    THEN r.DETERMINATION_DATE = NaT /\ FilingFails(r)
    ELSE IF name \in {"courtReaction60Days", "firstStatus14Days"}
    THEN FilingFails(r)
    ELSE FALSE

\* C19: the table is built for every row, with one part per configured check; a
\* check whose evaluation fails on a cell that is not a date gives (no_data,
\* false) in its own position, and every deadline check of the same row whose
\* own cells are sound gives the result of the deadline rule, whatever the other
\* cells of the row hold.
C19_EvaluatorFailureIsLocal ==
    (Built /\ caseStage # "outside_stage_filters") =>
        /\ Len(split(monitoringStatus)) = Len(ConfiguredChecks)
        /\ Len(split(completionStatus)) = Len(ConfiguredChecks)
        /\ \A i \in 1..Len(ConfiguredChecks) :
              LET name == ConfiguredChecks[i]
                  status == split(monitoringStatus)[i]
                  completed == split(completionStatus)[i]
              IN /\ ParseFails(name, row) =>
                       status = NO_DATA /\ completed = Str("false")
                 /\ (IsGeneric(name) /\ ~ParseFails(name, row)) =>
                       LET e == ReferenceShape(GenericOf(name), row, today)
                       IN /\ status = e.status
                          /\ completed =
                                (IF e.is_completed THEN Str("true") ELSE Str("false"))

\* a decided case is built whose receipt date is not a date: the receipt check
\* has no data while the decision check of the same row is timely and completed
C19_Witness ==
    /\ Built /\ production_type = "lawsuit" /\ caseStage = "decisionMade"
    /\ row.DECISION_COURT_DATE = Day0 - 45 /\ row.COURT_DECISION_DATE = Day0 - 3
    /\ row.DECISION_RECEIPT_DATE = Malformed
    /\ \E i, j \in 1..Len(ConfiguredChecks) :
          /\ ConfiguredChecks[i] = "decisionReceipt3days"
          /\ split(monitoringStatus)[i] = NO_DATA
          /\ split(completionStatus)[i] = Str("false")
          /\ ConfiguredChecks[j] = "decision45days"
          /\ split(monitoringStatus)[j] = TIMELY
          /\ split(completionStatus)[j] = Str("true")

-----------------------------------------------------------------------------
(* The data manager's report cache (specification SpecLoad) *)

\* a detailed report is cleaned again at most this many times before a clear
MaxCleanings == 2

\* stand-ins for VALUES["SIMPLIFIED_PRODUCTION"] and VALUES["CLAIM_PROCEEDINGS"]
SIMPLIFIED_PRODUCTION == "Simplified production"
CLAIM_PROCEEDINGS == "Claim proceedings"

\* a line of a sheet: what the line is, and the method of protection of a data line
Line(kind, value) == [kind |-> kind, value |-> value]

\* the files a loading method can be given: two detailed reports, two documents
\* reports and a file no reading engine can open
Paths == {"detailed_a.xlsx", "detailed_b.xlsx", "documents_a.xlsx",
          "documents_b.xlsx", "corrupt.xlsx"}
Files ==
    [p \in Paths |->
        CASE p = "detailed_a.xlsx" ->
                [readable |-> TRUE,
                 lines |-> <<Line("title", ""), Line("detailed_header", ""),
                             Line("numbering", ""),
                             Line("data", SIMPLIFIED_PRODUCTION),
                             Line("data", CLAIM_PROCEEDINGS), Line("total", "")>>]
          [] p = "detailed_b.xlsx" ->
                [readable |-> TRUE,
                 lines |-> <<Line("detailed_header", ""),
                             Line("data", ORDER_PRODUCTION)>>]
          [] p = "documents_a.xlsx" ->
                [readable |-> TRUE,
                 lines |-> <<Line("title", ""), Line("documents_header", ""),
                             Line("data", SIMPLIFIED_PRODUCTION)>>]
          [] p = "documents_b.xlsx" ->
                [readable |-> TRUE,
                 lines |-> <<Line("documents_header", ""),
                             Line("data", CLAIM_PROCEEDINGS),
                             Line("data", ORDER_PRODUCTION)>>]
          [] OTHER -> [readable |-> FALSE, lines |-> <<>>]]

\* load_excel_data: the sheet without a header, or ValueError when every
\* reading strategy has failed
load_excel_data(filepath) ==
    IF Files[filepath].readable
    THEN [raised |-> NoException, df |-> Files[filepath].lines]
    ELSE [raised |-> "ValueError", df |-> <<>>]

FirstLine(df, kind) ==
    LET found == {i \in 1..Len(df) : df[i].kind = kind}
    IN IF found = {} THEN 0 ELSE CHOOSE i \in found : \A j \in found : i <= j

Values(df) == [i \in 1..Len(df) |-> df[i].value]

\* clean_data of data_clean_detailed: the lines after the header line (and after
\* the numbering line under it, if there is one), cut before the totals line
clean_data(raw_df) ==
    LET start_row == FirstLine(raw_df, "detailed_header")
    IN IF start_row = 0 THEN [raised |-> "ValueError", rows |-> <<>>]
       ELSE IF start_row + 1 > Len(raw_df) THEN [raised |-> "IndexError", rows |-> <<>>]
       ELSE LET first == IF raw_df[start_row + 1].kind = "numbering"
                         THEN start_row + 2 ELSE start_row + 1
                cleaned == SubSeq(raw_df, first, Len(raw_df))
                total_idx == FirstLine(cleaned, "total")
            IN [raised |-> NoException,
                rows |-> Values(IF total_idx = 0 THEN cleaned
                                ELSE SubSeq(cleaned, 1, total_idx - 1))]

\* clean_documents_data: the lines after the header line
clean_documents(raw_df) ==
    LET start_row == FirstLine(raw_df, "documents_header")
    IN IF start_row = 0 THEN [raised |-> "ValueError", rows |-> <<>>]
       ELSE [raised |-> NoException,
             rows |-> Values(SubSeq(raw_df, start_row + 1, Len(raw_df)))]

\* cleaned_df[method_col].replace(simplified_value, claim_value)
replace_simplified(rows) ==
    [i \in 1..Len(rows) |->
        IF rows[i] = SIMPLIFIED_PRODUCTION THEN CLAIM_PROCEEDINGS ELSE rows[i]]

\* RainbowClassifier.add_color_column(cleaned_df): the class defines no attribute
\* of this name, so the attribute lookup raises
add_color_column(cleaned_df) == [raised |-> "AttributeError", df |-> NoTable]

\* what a loading method leaves behind: the stores, the exception raised or the
\* value returned, and the number of cleanings it completed
LoadOutcome(dm, exc, value, cleaned_now) ==
    [dm |-> dm, raised |-> exc, value |-> value, cleaned_now |-> cleaned_now]

load_detailed_report(dm, filepath) ==
    IF ~dm.cleaned.detailed_report.is_none
    THEN LoadOutcome(dm, NoException, dm.cleaned.detailed_report, 0)
    ELSE LET raw == load_excel_data(filepath)
         IN IF raw.raised # NoException
            THEN LoadOutcome(dm, raw.raised, NoTable, 0)
            ELSE LET cl == clean_data(raw.df)
                 IN IF cl.raised # NoException
                    THEN LoadOutcome(dm, cl.raised, NoTable, 0)
                    ELSE LET cleaned_df == Table(replace_simplified(cl.rows))
                             colored == add_color_column(cleaned_df)
                         IN IF colored.raised # NoException
                            THEN LoadOutcome(dm, colored.raised, NoTable, 1)
                            ELSE LoadOutcome(
                                   [cleaned |-> [dm.cleaned EXCEPT
                                                   !.detailed_report = cleaned_df],
                                    raw |-> [dm.raw EXCEPT
                                                   !.detailed_report = Table(raw.df)],
                                    colored |-> [dm.colored EXCEPT
                                                   !.detailed_report = colored.df]],
                                   NoException, colored.df, 1)

load_documents_report(dm, filepath) ==
    IF ~dm.cleaned.documents_report.is_none
    THEN LoadOutcome(dm, NoException, dm.cleaned.documents_report, 0)
    ELSE LET raw == load_excel_data(filepath)
         IN IF raw.raised # NoException
            THEN LoadOutcome(dm, raw.raised, NoTable, 0)
            ELSE LET cl == clean_documents(raw.df)
                 IN IF cl.raised # NoException
                    THEN LoadOutcome(dm, cl.raised, NoTable, 0)
                    ELSE LET cleaned_df == Table(replace_simplified(cl.rows))
                         IN LoadOutcome(
                              [dm EXCEPT
                                 !.cleaned.documents_report = cleaned_df,
                                 !.raw.documents_report = Table(raw.df)],
                              NoException, cleaned_df, 1)

clear_data(dm, data_type) ==
    LET detailed == data_type \in {"detailed", "all"}
        documents == data_type \in {"documents", "all"}
        Drop(store, with_detailed) ==
            [detailed_report |-> IF detailed /\ with_detailed
                                 THEN NoTable ELSE store.detailed_report,
             documents_report |-> IF documents
                                  THEN NoTable ELSE store.documents_report]
    IN [cleaned |-> Drop(dm.cleaned, TRUE),
        raw |-> Drop(dm.raw, TRUE),
        colored |-> [dm.colored EXCEPT
                       !.detailed_report = IF detailed THEN NoTable ELSE @]]

\* reload_data: clear_data(data_type), then the loading method of that type;
\* any other type raises ValueError after the clear
reload_data(dm, filepath, data_type) ==
    LET cleared == clear_data(dm, data_type)
    IN IF data_type = "detailed" THEN load_detailed_report(cleared, filepath)
       ELSE IF data_type = "documents" THEN load_documents_report(cleared, filepath)
       ELSE LoadOutcome(cleared, "ValueError", NoTable, 0)

DataTypes == {"detailed", "documents", "all"}

\* the cleanings counted since the last clear of each report
ClearedCount(count, data_type) ==
    [detailed_report |-> IF data_type \in {"detailed", "all"}
                         THEN 0 ELSE count.detailed_report,
     documents_report |-> IF data_type \in {"documents", "all"}
                          THEN 0 ELSE count.documents_report]

Stores == [cleaned |-> cleaned_data, raw |-> raw_data, colored |-> colored_data]

\* what the caller of a loading method sees
Returned(call, filepath, res) ==
    [call |-> call, filepath |-> filepath, raised |-> res.raised, value |-> res.value]

InitLoad ==
    /\ IdleBuild /\ IdleEval /\ IdleTasks /\ IdleCond /\ IdleRoute /\ IdleLoad

LoadDetailedReport ==
    /\ cleanings.detailed_report < MaxCleanings
    /\ \E filepath \in Paths :
          LET res == load_detailed_report(Stores, filepath)
          IN /\ cleaned_data' = res.dm.cleaned
             /\ raw_data' = res.dm.raw
             /\ colored_data' = res.dm.colored
             /\ cleanings' = [cleanings EXCEPT !.detailed_report = @ + res.cleaned_now]
             /\ load_result' = Returned("load_detailed_report", filepath, res)
    /\ UNCHANGED <<buildVars, evalVars, taskVars, condVars, routeVars>>

LoadDocumentsReport ==
    /\ \E filepath \in Paths :
          LET res == load_documents_report(Stores, filepath)
          IN /\ cleaned_data' = res.dm.cleaned
             /\ raw_data' = res.dm.raw
             /\ colored_data' = res.dm.colored
             /\ cleanings' = [cleanings EXCEPT !.documents_report = @ + res.cleaned_now]
             /\ load_result' = Returned("load_documents_report", filepath, res)
    /\ UNCHANGED <<buildVars, evalVars, taskVars, condVars, routeVars>>

ClearData ==
    /\ \E data_type \in DataTypes :
          LET dm == clear_data(Stores, data_type)
          IN /\ cleaned_data' = dm.cleaned
             /\ raw_data' = dm.raw
             /\ colored_data' = dm.colored
             /\ cleanings' = ClearedCount(cleanings, data_type)
    /\ UNCHANGED load_result
    /\ UNCHANGED <<buildVars, evalVars, taskVars, condVars, routeVars>>

ReloadData ==
    /\ \E filepath \in Paths, data_type \in DataTypes :
          LET res == reload_data(Stores, filepath, data_type)
              count == ClearedCount(cleanings, data_type)
          IN /\ cleaned_data' = res.dm.cleaned
             /\ raw_data' = res.dm.raw
             /\ colored_data' = res.dm.colored
             /\ cleanings' =
                  [detailed_report |-> count.detailed_report +
                       (IF data_type = "detailed" THEN res.cleaned_now ELSE 0),
                   documents_report |-> count.documents_report +
                       (IF data_type = "documents" THEN res.cleaned_now ELSE 0)]
             /\ load_result' = Returned("reload_data", filepath, res)
    /\ UNCHANGED <<buildVars, evalVars, taskVars, condVars, routeVars>>

NextLoad == LoadDetailedReport \/ LoadDocumentsReport \/ ClearData \/ ReloadData

SpecLoad == InitLoad /\ [][NextLoad]_vars

\* C28: between two clears of a report the data manager cleans it at most once:
\* once a loading method has cleaned a report, the later calls of that method
\* return the stored table, whatever the path, until clear_data or reload_data
C28_CleanedOncePerClear ==
    /\ cleanings.detailed_report <= 1
    /\ cleanings.documents_report <= 1

-----------------------------------------------------------------------------
(* Claims about single checks of a built row (specification Spec) *)

\* the court-reaction check of the lawsuit production written as a deadline check
CourtReactionShape ==
    [name |-> "courtReaction7days", filing |-> TRUE, anchor |-> "", n |-> 7,
     working |-> TRUE, completion |-> "DETERMINATION_DATE"]

\* C23: the court-reaction check of a lawsuit case follows the deadline shape with
\* the filing date as anchor, the determination date as completion date and the
\* deadline add_working_days(filing, 7): with a determination date, timely iff it
\* is on or before the deadline, completed; without one, overdue iff today is
\* after the deadline, not completed; without a filing date (no_data, false).
C23_CourtReactionShape ==
    (Built /\ production_type = "lawsuit" /\ caseStage = "courtReaction"
           /\ ~FilingFails(row)) =>
        LET e == ReferenceShape(CourtReactionShape, row, today)
        IN /\ split(monitoringStatus)[1] = e.status
           /\ split(completionStatus)[1] =
                 (IF e.is_completed THEN Str("true") ELSE Str("false"))

====
